---- MODULE Spec2Model ----
(***************************************************************************)
(* A model of the CSV cleaning toolbox under data/data-quality/unorganized: *)
(* the orchestrator clean_main.py, which chains the cleaning tools as child *)
(* processes, and the table transform driver (clean_dataframe) of the       *)
(* per-cell tools.                                                          *)
(*                                                                          *)
(* File names are sequences of tokens ("input", ".", "csv", "_cleaned");    *)
(* a CSV file is represented by its header (the set of its column names).   *)
(***************************************************************************)
EXTENDS Integers, Sequences, FiniteSets, TLC

(***************************************************************************)
(* Bounds of the model.                                                     *)
(***************************************************************************)
\* at most this many of the columns named in CONFIG are absent from the input
MaxMissing == 1
\* at most this many edits of the in-file CONFIG ("modify here")
MaxConfigEdits == 1
\* at most this many rows in the table a tool is run on
MaxRows == 2

RECURSIVE SubsetsUpTo(_, _)
SubsetsUpTo(S, n) ==
    IF n = 0 THEN {{}}
    ELSE LET prev == SubsetsUpTo(S, n - 1)
         IN  prev \cup {s \cup {x} : s \in prev, x \in S}

Range(s) == {s[i] : i \in 1..Len(s)}

IsPrefix(s, t) == Len(s) <= Len(t) /\ SubSeq(t, 1, Len(s)) = s

(***************************************************************************)
(* clean_main.py: CONFIG and the pipeline table.                            *)
(***************************************************************************)
CONFIG == [
    run_duplicate  |-> TRUE,
    duplicate_args |-> <<"Business_Name", "Business_Email", "Business_Website">>,
    run_phone      |-> TRUE,
    phone_args     |-> <<"Business_Phone">>,
    run_zip        |-> TRUE,
    zip_args       |-> <<"Business_Zip/Postal Code">>,
    run_state      |-> TRUE,
    state_args     |-> <<"Business_State", "abbr">>,
    run_website    |-> TRUE,
    website_args   |-> <<"Business_Website">>,
    run_email      |-> TRUE,
    email_args     |-> <<"Business_Email">>,
    run_linkedin   |-> TRUE,
    linkedin_args  |-> <<"Business_LinkedIn">>,
    run_facebook   |-> TRUE,
    facebook_args  |-> <<"Business_Facebook">>,
    run_instagram  |-> TRUE,
    instagram_args |-> <<"Business_Instagram">>,
    run_number     |-> TRUE,
    number_args    |-> <<"Distance", "decimal", "1", "round">>,
    run_alphanum   |-> TRUE,
    alphanum_args  |-> <<"Business_City", "--keep", "-", "--replace", " ">>,
    allow_cli_override |-> FALSE ]

\* (script, run_key, args_key)
pipeline == <<
    <<"clean_duplicate.py", "run_duplicate", "duplicate_args">>,
    <<"clean_phone.py",     "run_phone",     "phone_args">>,
    <<"clean_zip.py",       "run_zip",       "zip_args">>,
    <<"clean_state.py",     "run_state",     "state_args">>,
    <<"clean_website.py",   "run_website",   "website_args">>,
    <<"clean_email.py",     "run_email",     "email_args">>,
    <<"clean_linkedin.py",  "run_linkedin",  "linkedin_args">>,
    <<"clean_facebook.py",  "run_facebook",  "facebook_args">>,
    <<"clean_instagram.py", "run_instagram", "instagram_args">>,
    <<"clean_number.py",    "run_number",    "number_args">>,
    <<"clean_alphanum.py",  "run_alphanum",  "alphanum_args">> >>

Entries == 1..Len(pipeline)

\* an explicit output path, recognised by the tools' ".csv" suffix heuristic
OutCsv == "out.csv"

\* The edits of CONFIG the model considers: a step switched off, or an
\* explicit output path appended to a step's argument list.
ConfigEdits == {<<"disable", k>> : k \in Entries} \cup {<<"output", k>> : k \in Entries}

EditedConfig(E) ==
    [key \in DOMAIN CONFIG |->
        IF \E k \in Entries : key = pipeline[k][2] /\ <<"disable", k>> \in E
        THEN FALSE
        ELSE IF \E k \in Entries : key = pipeline[k][3] /\ <<"output", k>> \in E
        THEN Append(CONFIG[key], OutCsv)
        ELSE CONFIG[key]]

\* every column name that CONFIG hands to a tool as a positional argument
Columns == {
    "Business_Name", "Business_Email", "Business_Website", "Business_Phone",
    "Business_Zip/Postal Code", "Business_State", "Business_LinkedIn",
    "Business_Facebook", "Business_Instagram", "Distance", "decimal", "1",
    "round", "Business_City" }

(***************************************************************************)
(* pathlib: Path.stem, Path.suffix, Path.with_name on token sequences.      *)
(* The suffix starts at the last "." of the name, unless that dot is the    *)
(* first or the last token.                                                 *)
(***************************************************************************)
LastDot(name) ==
    LET dots == {i \in 1..Len(name) : name[i] = "."}
    IN  IF dots = {} THEN 0 ELSE CHOOSE i \in dots : \A j \in dots : j <= i

suffix(name) ==
    LET i == LastDot(name)
    IN  IF 1 < i /\ i < Len(name) THEN SubSeq(name, i, Len(name)) ELSE <<>>

stem(name) ==
    LET i == LastDot(name)
    IN  IF 1 < i /\ i < Len(name) THEN SubSeq(name, 1, i - 1) ELSE name

\* input_path.with_name(f"{stem}_cleaned{suffix}")
CleanedName(name) == stem(name) \o <<"_cleaned">> \o suffix(name)

InputNames == { <<"input", ".", "csv">>, <<"input">>, <<"input", ".">> }

OutCsvName == <<"out", ".", "csv">>

(***************************************************************************)
(* The command lines of the tools, as each tool's main() reads sys.argv[2:]. *)
(* A parse result is [columns, output, error]: the explicit column names,   *)
(* the explicit output path (<<>> when none is given) and whether parsing   *)
(* raised.                                                                  *)
(***************************************************************************)
EndsWithCsv(arg) == arg = OutCsv

\* Path(arg).resolve()
ArgPath(arg) == IF arg = OutCsv THEN OutCsvName ELSE <<arg>>

StartsWithDashes(arg) ==
    arg \in {"--keep", "--replace", "--strip-alpha", "--strip-num",
             "--mode", "--places", "--round"}

IsModeToken(arg) == arg \in {"abbr", "full"}

IntTokens == {"1"}

Parsed(cols, out, err) == [columns |-> cols, output |-> out, error |-> err]

\* while i < len(sys.argv): if arg.endswith(".csv"): output; break / columns.append
RECURSIVE ColumnsUntilCsv(_)
ColumnsUntilCsv(args) ==
    IF args = <<>> \/ EndsWithCsv(Head(args)) THEN <<>>
    ELSE <<Head(args)>> \o ColumnsUntilCsv(Tail(args))

CsvArgs(args) == SelectSeq(args, EndsWithCsv)

ParseUntilCsv(args) ==
    Parsed(ColumnsUntilCsv(args),
           IF CsvArgs(args) = <<>> THEN <<>> ELSE <<OutCsvName>>,
           FALSE)

\* clean_zip.py: argv[2] is the column, argv[3] (when present) the output
ParseZip(args) ==
    Parsed(<<args[1]>>, IF Len(args) >= 2 THEN <<ArgPath(args[2])>> ELSE <<>>, FALSE)

\* clean_state.py: a mode token, a .csv output, anything else a column
StateIsColumn(arg) == ~IsModeToken(arg) /\ ~EndsWithCsv(arg)

StateIsOutput(arg) == ~IsModeToken(arg) /\ EndsWithCsv(arg)

ParseState(args) ==
    Parsed(SelectSeq(args, StateIsColumn),
           IF SelectSeq(args, StateIsOutput) = <<>> THEN <<>> ELSE <<OutCsvName>>,
           FALSE)

\* clean_number.py: positional columns up to the first "--" option, stopping
\* before a final .csv argument
RECURSIVE NumberColumns(_)
NumberColumns(args) ==
    IF args = <<>> \/ StartsWithDashes(Head(args)) THEN <<>>
    ELSE IF Len(args) = 1 /\ EndsWithCsv(Head(args)) THEN <<>>
    ELSE <<Head(args)>> \o NumberColumns(Tail(args))

\* the options loop: [output, mode, places, round_mode, error]
RECURSIVE NumberOptions(_, _)
NumberOptions(rest, o) ==
    IF rest = <<>> THEN o
    ELSE IF Head(rest) \in {"--mode", "--places", "--round"}
    THEN IF Len(rest) < 2 THEN [o EXCEPT !.error = TRUE]
         ELSE IF Head(rest) = "--mode"
              THEN NumberOptions(Tail(Tail(rest)), [o EXCEPT !.mode = rest[2]])
         ELSE IF Head(rest) = "--round"
              THEN NumberOptions(Tail(Tail(rest)), [o EXCEPT !.round_mode = rest[2]])
         ELSE IF rest[2] \in IntTokens
              THEN NumberOptions(Tail(Tail(rest)), [o EXCEPT !.places = rest[2]])
              ELSE [o EXCEPT !.error = TRUE]
    ELSE IF EndsWithCsv(Head(rest))
    THEN NumberOptions(Tail(rest), [o EXCEPT !.output = <<OutCsvName>>])
    ELSE NumberOptions(Tail(rest), o)

ParseNumber(args) ==
    LET cols == NumberColumns(args)
        o    == NumberOptions(SubSeq(args, Len(cols) + 1, Len(args)),
                    [output |-> <<>>, mode |-> "integer", places |-> "2",
                     round_mode |-> "up", error |-> FALSE])
    IN  Parsed(cols, o.output,
               o.error \/ o.mode \notin {"integer", "decimal"}
                       \/ o.round_mode \notin {"up", "down"})

\* clean_alphanum.py: --keep X, --replace X, --strip-alpha, --strip-num, a
\* .csv output, anything else a column
RECURSIVE ParseAlphanumFrom(_, _)
ParseAlphanumFrom(rest, p) ==
    IF rest = <<>> THEN p
    ELSE IF Head(rest) \in {"--keep", "--replace"}
    THEN IF Len(rest) < 2 THEN [p EXCEPT !.error = TRUE]
         ELSE ParseAlphanumFrom(Tail(Tail(rest)), p)
    ELSE IF Head(rest) \in {"--strip-alpha", "--strip-num"}
    THEN ParseAlphanumFrom(Tail(rest), p)
    ELSE IF EndsWithCsv(Head(rest))
    THEN ParseAlphanumFrom(Tail(rest), [p EXCEPT !.output = <<OutCsvName>>])
    ELSE ParseAlphanumFrom(Tail(rest), [p EXCEPT !.columns = Append(@, Head(rest))])

ParseAlphanum(args) == ParseAlphanumFrom(args, Parsed(<<>>, <<>>, FALSE))

ParseArgs(script, args) ==
    CASE script = "clean_zip.py"      -> ParseZip(args)
      [] script = "clean_state.py"    -> ParseState(args)
      [] script = "clean_number.py"   -> ParseNumber(args)
      [] script = "clean_alphanum.py" -> ParseAlphanum(args)
      [] OTHER                        -> ParseUntilCsv(args)

\* the tools that fall back to keyword detection when no column is given
AutoDetectTools == {"clean_phone.py", "clean_state.py", "clean_website.py",
                    "clean_email.py", "clean_linkedin.py", "clean_facebook.py",
                    "clean_instagram.py"}

\* detect_*_columns on the column names of CONFIG: the names whose lower-cased
\* form contains one of the tool's keywords
KeywordColumns(script) ==
    CASE script = "clean_phone.py"     -> {"Business_Phone"}
      [] script = "clean_state.py"     -> {"Business_State"}
      [] script = "clean_website.py"   -> {"Business_Website"}
      [] script = "clean_email.py"     -> {"Business_Email"}
      [] script = "clean_linkedin.py"  -> {"Business_LinkedIn"}
      [] script = "clean_facebook.py"  -> {"Business_Facebook"}
      [] script = "clean_instagram.py" -> {"Business_Instagram"}
      [] OTHER                         -> {}

DetectColumns(script, header) ==
    SelectSeq(header, LAMBDA c : c \in KeywordColumns(script))

\* the tools that write a <tool>_log.txt beside the input
LoggingTools == {"clean_duplicate.py", "clean_phone.py", "clean_state.py",
                 "clean_website.py", "clean_email.py", "clean_linkedin.py",
                 "clean_facebook.py", "clean_instagram.py", "clean_alphanum.py"}

\* one line of a log or of standard output
Line(tag, script, step, file, args) ==
    [tag |-> tag, script |-> script, step |-> step, file |-> file, args |-> args]

ToolLogName(script) ==
    CASE script = "clean_duplicate.py" -> "clean_duplicate_log.txt"
      [] script = "clean_phone.py"     -> "clean_phone_log.txt"
      [] script = "clean_state.py"     -> "clean_state_log.txt"
      [] script = "clean_website.py"   -> "clean_website_log.txt"
      [] script = "clean_email.py"     -> "clean_email_log.txt"
      [] script = "clean_linkedin.py"  -> "clean_linkedin_log.txt"
      [] script = "clean_facebook.py"  -> "clean_facebook_log.txt"
      [] script = "clean_instagram.py" -> "clean_instagram_log.txt"
      [] script = "clean_alphanum.py"  -> "clean_alphanum_log.txt"

\* the tools whose usage check asks for a column argument (len(sys.argv) < 3)
NeedColumnArg == {"clean_duplicate.py", "clean_zip.py", "clean_number.py",
                  "clean_alphanum.py"}

(***************************************************************************)
(* One whole run of a tool's main() as the orchestrator sees it: the exit   *)
(* status, and the files as the run leaves them.  A run that raises (usage, *)
(* file not found, a bad option, no column, a column that is not in the     *)
(* table) exits non-zero before anything is written; a run that succeeds    *)
(* writes the table, with the header of its input, to the explicit output   *)
(* path or else to <stem>_cleaned<suffix>.                                  *)
(***************************************************************************)
ToolColumns(script, args, header) ==
    LET p == ParseArgs(script, args)
    IN  IF p.columns = <<>> /\ script \in AutoDetectTools
        THEN DetectColumns(script, header)
        ELSE p.columns

ToolOutput(script, input, args) ==
    LET p == ParseArgs(script, args)
    IN  IF p.output = <<>> THEN CleanedName(input) ELSE p.output[1]

ToolRaises(script, input, args, files) ==
    \/ args = <<>> /\ script \in NeedColumnArg
    \/ input \notin DOMAIN files
    \/ ParseArgs(script, args).error
    \/ ToolColumns(script, args, files[input]) = <<>> /\ script # "clean_number.py"
    \/ \E c \in Range(ToolColumns(script, args, files[input])) :
          c \notin Range(files[input])

ToolRun(script, input, args, files, textfiles) ==
    IF ToolRaises(script, input, args, files)
    THEN [returncode |-> 1, files |-> files, logs |-> textfiles]
    ELSE [returncode |-> 0,
          files |-> (ToolOutput(script, input, args) :> files[input]) @@ files,
          logs  |-> IF script \in LoggingTools
                    THEN (ToolLogName(script) :>
                            <<Line("TOOL LOG", script, 0, input,
                                   ToolColumns(script, args, files[input]))>>)
                         @@ textfiles
                    ELSE textfiles]

(***************************************************************************)
(* Text.  A Python str is a sequence of one-character strings; a missing    *)
(* cell (pandas NaN) is the value NaN.                                      *)
(***************************************************************************)
NaN == <<"NaN">>

\* pd.isna(value)
isna(value) == value = NaN

\* str(value): the text of a missing cell is "nan"
str(value) == IF isna(value) THEN <<"n", "a", "n">> ELSE value

\* Python's != between a cell and a result: NaN is unequal to everything
PyNotEqual(a, b) == isna(a) \/ isna(b) \/ a # b

LowerLetters == <<"a", "b", "c", "d", "e", "f", "g", "h", "i", "j", "k", "l", "m",
                  "n", "o", "p", "q", "r", "s", "t", "u", "v", "w", "x", "y", "z">>

UpperLetters == <<"A", "B", "C", "D", "E", "F", "G", "H", "I", "J", "K", "L", "M",
                  "N", "O", "P", "Q", "R", "S", "T", "U", "V", "W", "X", "Y", "Z">>

IsLower(c) == c \in Range(LowerLetters)
IsUpper(c) == c \in Range(UpperLetters)
IsAlpha(c) == IsLower(c) \/ IsUpper(c)
IsDigit(c) == c \in {"0", "1", "2", "3", "4", "5", "6", "7", "8", "9"}
IsSpace(c) == c \in {" ", "\t", "\n"}

LetterIndex(letters, c) == CHOOSE i \in 1..Len(letters) : letters[i] = c

lower_char(c) == IF IsUpper(c) THEN LowerLetters[LetterIndex(UpperLetters, c)] ELSE c
upper_char(c) == IF IsLower(c) THEN UpperLetters[LetterIndex(LowerLetters, c)] ELSE c

\* str.lower(), str.upper()
lower(s) == [i \in 1..Len(s) |-> lower_char(s[i])]
upper(s) == [i \in 1..Len(s) |-> upper_char(s[i])]

\* str.title(): a letter that follows a letter is lower-cased, any other
\* letter is upper-cased
title(s) ==
    [i \in 1..Len(s) |->
        IF i > 1 /\ IsAlpha(s[i-1]) THEN lower_char(s[i]) ELSE upper_char(s[i])]

RECURSIVE lstrip(_)
lstrip(s) == IF s # <<>> /\ IsSpace(Head(s)) THEN lstrip(Tail(s)) ELSE s

RECURSIVE rstrip(_)
rstrip(s) ==
    IF s # <<>> /\ IsSpace(s[Len(s)]) THEN rstrip(SubSeq(s, 1, Len(s) - 1)) ELSE s

\* str.strip()
strip(s) == lstrip(rstrip(s))

\* s[:n], s[n:] (n counts characters)
Take(s, n) == SubSeq(s, 1, IF n < Len(s) THEN n ELSE Len(s))
Drop(s, n) == SubSeq(s, n + 1, Len(s))

startswith(s, p) == Len(p) <= Len(s) /\ SubSeq(s, 1, Len(p)) = p

\* the positions at which p occurs in s
Occurrences(s, p) ==
    {i \in 1..(Len(s) - Len(p) + 1) : SubSeq(s, i, i + Len(p) - 1) = p}

\* p in s
contains(s, p) == Occurrences(s, p) # {}

Min(S) == CHOOSE x \in S : \A y \in S : x <= y
Max(S) == CHOOSE x \in S : \A y \in S : y <= x

\* the characters of s that are not in the set chars (str.replace(c, "") for
\* each c, re.sub of a character class by "")
Without(s, chars) == SelectSeq(s, LAMBDA c : c \notin chars)

RECURSIVE Flatten(_)
Flatten(ss) == IF ss = <<>> THEN <<>> ELSE Head(ss) \o Flatten(Tail(ss))

(***************************************************************************)
(* clean_zip.py                                                             *)
(***************************************************************************)
\* (mutant) the digits are not cut to five
clean_zip_uncut(value) ==
    IF isna(value) THEN <<>> ELSE SelectSeq(strip(str(value)), IsDigit)

\* ZIP_REGEX.findall, "".join, digits[:5]
clean_zip(value) ==
    IF isna(value) THEN <<>>
    ELSE Take(SelectSeq(strip(str(value)), IsDigit), 5)

(***************************************************************************)
(* clean_state.py                                                           *)
(***************************************************************************)
\* STATE_TO_ABBR as (name, abbreviation) pairs
STATE_TO_ABBR == <<
    <<<<"A", "L", "A", "B", "A", "M", "A">>, <<"A", "L">>>>,
    <<<<"A", "L", "A", "S", "K", "A">>, <<"A", "K">>>>,
    <<<<"A", "R", "I", "Z", "O", "N", "A">>, <<"A", "Z">>>>,
    <<<<"A", "R", "K", "A", "N", "S", "A", "S">>, <<"A", "R">>>>,
    <<<<"C", "A", "L", "I", "F", "O", "R", "N", "I", "A">>, <<"C", "A">>>>,
    <<<<"C", "O", "L", "O", "R", "A", "D", "O">>, <<"C", "O">>>>,
    <<<<"C", "O", "N", "N", "E", "C", "T", "I", "C", "U", "T">>, <<"C", "T">>>>,
    <<<<"D", "E", "L", "A", "W", "A", "R", "E">>, <<"D", "E">>>>,
    <<<<"F", "L", "O", "R", "I", "D", "A">>, <<"F", "L">>>>,
    <<<<"G", "E", "O", "R", "G", "I", "A">>, <<"G", "A">>>>,
    <<<<"H", "A", "W", "A", "I", "I">>, <<"H", "I">>>>,
    <<<<"I", "D", "A", "H", "O">>, <<"I", "D">>>>,
    <<<<"I", "L", "L", "I", "N", "O", "I", "S">>, <<"I", "L">>>>,
    <<<<"I", "N", "D", "I", "A", "N", "A">>, <<"I", "N">>>>,
    <<<<"I", "O", "W", "A">>, <<"I", "A">>>>,
    <<<<"K", "A", "N", "S", "A", "S">>, <<"K", "S">>>>,
    <<<<"K", "E", "N", "T", "U", "C", "K", "Y">>, <<"K", "Y">>>>,
    <<<<"L", "O", "U", "I", "S", "I", "A", "N", "A">>, <<"L", "A">>>>,
    <<<<"M", "A", "I", "N", "E">>, <<"M", "E">>>>,
    <<<<"M", "A", "R", "Y", "L", "A", "N", "D">>, <<"M", "D">>>>,
    <<<<"M", "A", "S", "S", "A", "C", "H", "U", "S", "E", "T", "T", "S">>, <<"M", "A">>>>,
    <<<<"M", "I", "C", "H", "I", "G", "A", "N">>, <<"M", "I">>>>,
    <<<<"M", "I", "N", "N", "E", "S", "O", "T", "A">>, <<"M", "N">>>>,
    <<<<"M", "I", "S", "S", "I", "S", "S", "I", "P", "P", "I">>, <<"M", "S">>>>,
    <<<<"M", "I", "S", "S", "O", "U", "R", "I">>, <<"M", "O">>>>,
    <<<<"M", "O", "N", "T", "A", "N", "A">>, <<"M", "T">>>>,
    <<<<"N", "E", "B", "R", "A", "S", "K", "A">>, <<"N", "E">>>>,
    <<<<"N", "E", "V", "A", "D", "A">>, <<"N", "V">>>>,
    <<<<"N", "E", "W", " ", "H", "A", "M", "P", "S", "H", "I", "R", "E">>, <<"N", "H">>>>,
    <<<<"N", "E", "W", " ", "J", "E", "R", "S", "E", "Y">>, <<"N", "J">>>>,
    <<<<"N", "E", "W", " ", "M", "E", "X", "I", "C", "O">>, <<"N", "M">>>>,
    <<<<"N", "E", "W", " ", "Y", "O", "R", "K">>, <<"N", "Y">>>>,
    <<<<"N", "O", "R", "T", "H", " ", "C", "A", "R", "O", "L", "I", "N", "A">>, <<"N", "C">>>>,
    <<<<"N", "O", "R", "T", "H", " ", "D", "A", "K", "O", "T", "A">>, <<"N", "D">>>>,
    <<<<"O", "H", "I", "O">>, <<"O", "H">>>>,
    <<<<"O", "K", "L", "A", "H", "O", "M", "A">>, <<"O", "K">>>>,
    <<<<"O", "R", "E", "G", "O", "N">>, <<"O", "R">>>>,
    <<<<"P", "E", "N", "N", "S", "Y", "L", "V", "A", "N", "I", "A">>, <<"P", "A">>>>,
    <<<<"R", "H", "O", "D", "E", " ", "I", "S", "L", "A", "N", "D">>, <<"R", "I">>>>,
    <<<<"S", "O", "U", "T", "H", " ", "C", "A", "R", "O", "L", "I", "N", "A">>, <<"S", "C">>>>,
    <<<<"S", "O", "U", "T", "H", " ", "D", "A", "K", "O", "T", "A">>, <<"S", "D">>>>,
    <<<<"T", "E", "N", "N", "E", "S", "S", "E", "E">>, <<"T", "N">>>>,
    <<<<"T", "E", "X", "A", "S">>, <<"T", "X">>>>,
    <<<<"U", "T", "A", "H">>, <<"U", "T">>>>,
    <<<<"V", "E", "R", "M", "O", "N", "T">>, <<"V", "T">>>>,
    <<<<"V", "I", "R", "G", "I", "N", "I", "A">>, <<"V", "A">>>>,
    <<<<"W", "A", "S", "H", "I", "N", "G", "T", "O", "N">>, <<"W", "A">>>>,
    <<<<"W", "E", "S", "T", " ", "V", "I", "R", "G", "I", "N", "I", "A">>, <<"W", "V">>>>,
    <<<<"W", "I", "S", "C", "O", "N", "S", "I", "N">>, <<"W", "I">>>>,
    <<<<"W", "Y", "O", "M", "I", "N", "G">>, <<"W", "Y">>>> >>

StateNames == {STATE_TO_ABBR[i][1] : i \in 1..Len(STATE_TO_ABBR)}
StateAbbrs == {STATE_TO_ABBR[i][2] : i \in 1..Len(STATE_TO_ABBR)}

AbbrOf(name) == STATE_TO_ABBR[CHOOSE i \in 1..Len(STATE_TO_ABBR) : STATE_TO_ABBR[i][1] = name][2]

\* ABBR_TO_STATE
NameOf(abbr) == STATE_TO_ABBR[CHOOSE i \in 1..Len(STATE_TO_ABBR) : STATE_TO_ABBR[i][2] = abbr][1]

\* the text upper-cased with its whitespace left around it
normalize_state_name_unstripped(value) == upper(str(value))

\* str(value).strip().upper()
normalize_state_name(value) == upper(strip(str(value)))

clean_state(value, mode) ==
    IF isna(value) THEN <<>>
    ELSE LET text == normalize_state_name(value)
         IN  IF text \in StateNames
             THEN IF mode = "abbr" THEN AbbrOf(text) ELSE title(text)
             ELSE IF text \in StateAbbrs
             THEN IF mode = "abbr" THEN text ELSE title(NameOf(text))
             ELSE <<>>

(***************************************************************************)
(* clean_email.py                                                           *)
(***************************************************************************)
\* re.search(r"<([^>]+)>", s): the first "<" whose next ">" is not adjacent
AngleStarts(s) ==
    {i \in 1..Len(s) : /\ s[i] = "<"
                        /\ i + 1 <= Len(s) /\ s[i+1] # ">"
                        /\ \E j \in (i+2)..Len(s) : s[j] = ">"}

AngleContent(s) ==
    LET i == Min(AngleStarts(s))
        j == Min({k \in (i+2)..Len(s) : s[k] = ">"})
    IN  SubSeq(s, i + 1, j - 1)

IsEmailLocalChar(c) == IsLower(c) \/ IsDigit(c) \/ c \in {".", "_", "%", "+", "-"}
IsEmailDomainChar(c) == IsLower(c) \/ IsDigit(c) \/ c \in {".", "-"}

\* EMAIL_REGEX.match(s): ^[a-z0-9._%+\-]+@[a-z0-9.\-]+\.[a-z]{2,}$
\* ($ also matches before one final newline)
EmailMatchesExactly(s) ==
    LET ats == {i \in 1..Len(s) : s[i] = "@"}
    IN  /\ Cardinality(ats) = 1
        /\ LET at  == Min(ats)
               dom == SubSeq(s, at + 1, Len(s))
               dots == {i \in 1..Len(dom) : dom[i] = "."}
           IN  /\ at > 1
               /\ \A i \in 1..(at - 1) : IsEmailLocalChar(s[i])
               /\ dots # {}
               /\ LET d == Max(dots)
                  IN  /\ d > 1
                      /\ \A i \in 1..(d - 1) : IsEmailDomainChar(dom[i])
                      /\ Len(dom) - d >= 2
                      /\ \A i \in (d + 1)..Len(dom) : IsLower(dom[i])

EMAIL_REGEX_match(s) ==
    \/ EmailMatchesExactly(s)
    \/ s # <<>> /\ s[Len(s)] = "\n" /\ EmailMatchesExactly(SubSeq(s, 1, Len(s) - 1))

extract_email(text) ==
    IF isna(text) THEN <<>>
    ELSE LET s0 == strip(str(text))
             s1 == IF startswith(lower(s0), <<"m", "a", "i", "l", "t", "o", ":">>)
                   THEN Drop(s0, 7) ELSE s0
             s2 == IF AngleStarts(s1) # {} THEN strip(AngleContent(s1)) ELSE s1
             s3 == lower(Without(s2, {" ", ";", ","}))
         IN  IF s0 = <<>> THEN <<>>
             ELSE IF EMAIL_REGEX_match(s3) THEN s3
             ELSE <<>>

(***************************************************************************)
(* clean_alphanum.py                                                        *)
(***************************************************************************)
\* apply_strip_modes
apply_strip_modes(val, strip_alpha, strip_num) ==
    IF isna(val) THEN val
    ELSE LET s == str(val)
             a == IF strip_alpha THEN SelectSeq(s, LAMBDA c : ~IsAlpha(c)) ELSE s
         IN  IF strip_num THEN SelectSeq(a, LAMBDA c : ~IsDigit(c)) ELSE a

\* build_cleaner(extra_chars) and cleaner_regex.sub(replacement, v): every
\* character outside [A-Za-z0-9 ] and extra_chars becomes replacement
clean_value(val, extra_chars, replacement, strip_alpha, strip_num) ==
    IF isna(val) THEN val
    ELSE LET v == apply_strip_modes(val, strip_alpha, strip_num)
         IN  Flatten([i \in 1..Len(v) |->
                 IF IsAlpha(v[i]) \/ IsDigit(v[i]) \/ v[i] = " "
                    \/ v[i] \in Range(extra_chars)
                 THEN <<v[i]>> ELSE replacement])

(***************************************************************************)
(* urllib.parse.urlparse as the URL tools use it (Python 3.11): the input  *)
(* always carries a scheme, and contains no space.                          *)
(***************************************************************************)
RECURSIVE rstrip_char(_, _)
\* s.rstrip(c)
rstrip_char(s, c) ==
    IF s # <<>> /\ s[Len(s)] = c THEN rstrip_char(SubSeq(s, 1, Len(s) - 1), c) ELSE s

RECURSIVE split(_, _)
\* s.split(sep) for a one-character sep
split(s, sep) ==
    IF \A i \in 1..Len(s) : s[i] # sep THEN <<s>>
    ELSE LET i == Min({k \in 1..Len(s) : s[k] = sep})
         IN  <<SubSeq(s, 1, i - 1)>> \o split(Drop(s, i), sep)

\* position of the first character of s that is in chars, Len(s) + 1 if none
FirstOf(s, chars) == Min({i \in 1..Len(s) : s[i] \in chars} \cup {Len(s) + 1})

\* re.sub(r"//+", "/", s)
CollapseSlashes(s) ==
    Flatten([i \in 1..Len(s) |->
        IF s[i] = "/" /\ i > 1 /\ s[i-1] = "/" THEN <<>> ELSE <<s[i]>>])

IsSchemeChar(c) == IsAlpha(c) \/ IsDigit(c) \/ c \in {"+", "-", "."}

\* re.match(r"^[a-zA-Z][a-zA-Z0-9+\-.]*://", v)
HasScheme(v) ==
    \E k \in 1..(Len(v) - 3) :
        /\ IsAlpha(v[1])
        /\ \A i \in 2..k : IsSchemeChar(v[i])
        /\ SubSeq(v, k + 1, k + 3) = <<":", "/", "/">>

\* "https://" + v when v has no scheme
ForParse(v) ==
    IF HasScheme(v) THEN v ELSE <<"h", "t", "t", "p", "s", ":", "/", "/">> \o v

uses_params ==
    {<<>>, <<"f", "t", "p">>, <<"h", "d", "l">>,
     <<"p", "r", "o", "s", "p", "e", "r", "o">>, <<"h", "t", "t", "p">>,
     <<"i", "m", "a", "p">>, <<"h", "t", "t", "p", "s">>,
     <<"s", "h", "t", "t", "p">>, <<"r", "t", "s", "p">>,
     <<"r", "t", "s", "p", "s">>, <<"r", "t", "s", "p", "u">>,
     <<"s", "i", "p">>, <<"s", "i", "p", "s">>, <<"m", "m", "s">>,
     <<"s", "f", "t", "p">>, <<"t", "e", "l">>}

\* _splitparams(url)[0]
SplitParams(url) ==
    LET slashes == {i \in 1..Len(url) : url[i] = "/"}
        from    == IF slashes = {} THEN 1 ELSE Max(slashes)
        semis   == {i \in from..Len(url) : url[i] = ";"}
    IN  IF semis = {} THEN url ELSE SubSeq(url, 1, Min(semis) - 1)

\* urlparse(url): the scheme, netloc and path components, and whether the
\* call raises ValueError (a netloc with one bracket of a pair)
urlparse(url0) ==
    LET url    == Without(url0, {"\t", "\n", "\r"})
        colon  == FirstOf(url, {":"})
        scheme == lower(SubSeq(url, 1, colon - 1))
        rest   == Drop(url, colon + 2)
        cut    == FirstOf(rest, {"/", "?", "#"})
        netloc == SubSeq(rest, 1, cut - 1)
        tail   == Drop(rest, cut - 1)
        path0  == SubSeq(tail, 1, FirstOf(tail, {"?", "#"}) - 1)
        path   == IF scheme \in uses_params THEN SplitParams(path0) ELSE path0
    IN  [scheme |-> scheme, netloc |-> netloc, path |-> path,
         raises |-> ("[" \in Range(netloc)) # ("]" \in Range(netloc))]

www == <<"w", "w", "w", ".">>

\* segment in text, for a list of segments
ContainsAny(text, segments) == \E seg \in segments : contains(text, seg)

\* [p for p in path.split("/") if p != ""]
parts(path) == SelectSeq(split(path, "/"), LAMBDA p : p # <<>>)

(***************************************************************************)
(* clean_website.py                                                         *)
(***************************************************************************)
normalize_url(value) ==
    IF isna(value) THEN <<>>
    ELSE LET v0 == strip(str(value))
             v  == Without(v0, {" "})
             parsed == urlparse(ForParse(v))
             domain == lower(parsed.netloc)
             path   == rstrip_char(parsed.path, "/")
         IN  IF v0 = <<>> THEN <<>>
             ELSE IF parsed.raises THEN v
             ELSE CollapseSlashes(
                      (IF startswith(domain, www) THEN domain ELSE www \o domain)
                      \o path)

(***************************************************************************)
(* clean_facebook.py                                                        *)
(***************************************************************************)
FACEBOOK_DOMAINS ==
    {<<"f", "a", "c", "e", "b", "o", "o", "k", ".", "c", "o", "m">>,
     <<"w", "w", "w", ".", "f", "a", "c", "e", "b", "o", "o", "k", ".", "c", "o", "m">>,
     <<"f", "b", ".", "c", "o", "m">>,
     <<"w", "w", "w", ".", "f", "b", ".", "c", "o", "m">>}

\* the list without its entry "/groups/"
INVALID_FACEBOOK_SEGMENTS_without_groups ==
    {<<"/", "p", "o", "s", "t", "s", "/">>,
     <<"/", "p", "o", "s", "t", "/">>,
     <<"/", "p", "h", "o", "t", "o", "s", "/">>,
     <<"/", "p", "h", "o", "t", "o", "/">>,
     <<"/", "v", "i", "d", "e", "o", "s", "/">>,
     <<"/", "v", "i", "d", "e", "o", "/">>,
     <<"/", "r", "e", "e", "l", "/">>,
     <<"/", "s", "t", "o", "r", "y", ".", "p", "h", "p">>,
     <<"/", "s", "h", "a", "r", "e", "/">>,
     <<"/", "w", "a", "t", "c", "h", "/">>}

INVALID_FACEBOOK_SEGMENTS ==
    {<<"/", "p", "o", "s", "t", "s", "/">>,
     <<"/", "p", "o", "s", "t", "/">>,
     <<"/", "p", "h", "o", "t", "o", "s", "/">>,
     <<"/", "p", "h", "o", "t", "o", "/">>,
     <<"/", "v", "i", "d", "e", "o", "s", "/">>,
     <<"/", "v", "i", "d", "e", "o", "/">>,
     <<"/", "r", "e", "e", "l", "/">>,
     <<"/", "s", "t", "o", "r", "y", ".", "p", "h", "p">>,
     <<"/", "s", "h", "a", "r", "e", "/">>,
     <<"/", "g", "r", "o", "u", "p", "s", "/">>,
     <<"/", "w", "a", "t", "c", "h", "/">>}

VALID_FACEBOOK_PATTERNS ==
    {<<"/", "p", "r", "o", "f", "i", "l", "e", ".", "p", "h", "p">>,
     <<"/", "p", "e", "o", "p", "l", "e", "/">>,
     <<"/", "p", "u", "b", "l", "i", "c", "/">>,
     <<"/", "p", "a", "g", "e", "s", "/">>,
     <<"/", "p", "g", "/">>,
     <<"/", "b", "u", "s", "i", "n", "e", "s", "s", "/">>,
     <<"/", "m", "a", "r", "k", "e", "t", "p", "l", "a", "c", "e", "/">>}

normalize_facebook_url(value) ==
    IF isna(value) THEN <<>>
    ELSE LET v0 == strip(str(value))
             v  == Without(v0, {" "})
             parsed == urlparse(ForParse(v))
             domain == lower(parsed.netloc)
             path   == CollapseSlashes(rstrip_char(parsed.path, "/"))
             lowerpath == lower(path) \o <<"/">>
             valid  == \/ \E ok \in VALID_FACEBOOK_PATTERNS : startswith(lowerpath, ok)
                       \/ /\ Len(parts(path)) = 1
                          /\ parts(path)[1] \notin {<<"h", "o", "m", "e">>, <<"p", "a", "g", "e", "s">>,
                                                   <<"m", "a", "r", "k", "e", "t", "p", "l", "a", "c", "e">>}
         IN  IF v0 = <<>> THEN <<>>
             ELSE IF parsed.raises THEN <<>>
             ELSE IF domain \notin FACEBOOK_DOMAINS THEN <<>>
             ELSE IF ContainsAny(lowerpath, INVALID_FACEBOOK_SEGMENTS) THEN <<>>
             ELSE IF ~valid THEN <<>>
             ELSE CollapseSlashes(
                      (IF startswith(domain, www) THEN domain ELSE www \o domain)
                      \o path)

(***************************************************************************)
(* clean_linkedin.py                                                        *)
(***************************************************************************)
VALID_LINKEDIN_PATHS ==
    {<<"/", "i", "n", "/">>,
     <<"/", "c", "o", "m", "p", "a", "n", "y", "/">>,
     <<"/", "s", "c", "h", "o", "o", "l", "/">>,
     <<"/", "s", "h", "o", "w", "c", "a", "s", "e", "/">>,
     <<"/", "g", "r", "o", "u", "p", "s", "/">>}

normalize_linkedin_url(value) ==
    IF isna(value) THEN <<>>
    ELSE LET v0 == strip(str(value))
             v  == Without(v0, {" "})
             parsed == urlparse(ForParse(v))
             domain == lower(parsed.netloc)
             path   == rstrip_char(parsed.path, "/")
             p      == lower(path) \o <<"/">>
         IN  IF v0 = <<>> THEN <<>>
             ELSE IF parsed.raises THEN <<>>
             ELSE IF ~contains(domain, <<"l", "i", "n", "k", "e", "d", "i", "n", ".", "c", "o", "m">>) THEN <<>>
             ELSE IF ~ContainsAny(p, VALID_LINKEDIN_PATHS) THEN <<>>
             ELSE CollapseSlashes(
                      (IF startswith(domain, www) THEN domain ELSE www \o domain)
                      \o path)

(***************************************************************************)
(* clean_instagram.py                                                       *)
(***************************************************************************)
INSTAGRAM_DOMAINS ==
    {<<"i", "n", "s", "t", "a", "g", "r", "a", "m", ".", "c", "o", "m">>,
     <<"w", "w", "w", ".", "i", "n", "s", "t", "a", "g", "r", "a", "m", ".", "c", "o", "m">>}

INVALID_INSTAGRAM_SEGMENTS ==
    {<<"/", "p", "/">>,
     <<"/", "r", "e", "e", "l", "/">>,
     <<"/", "r", "e", "e", "l", "s", "/">>,
     <<"/", "t", "v", "/">>,
     <<"/", "s", "t", "o", "r", "i", "e", "s", "/">>,
     <<"/", "s", "t", "o", "r", "y", "/">>,
     <<"/", "s", "/">>,
     <<"/", "e", "x", "p", "l", "o", "r", "e", "/">>,
     <<"/", "d", "i", "r", "e", "c", "t", "/">>,
     <<"/", "t", "a", "g", "s", "/">>,
     <<"/", "c", "h", "a", "l", "l", "e", "n", "g", "e", "/">>}

IsUsernameChar(c) == IsAlpha(c) \/ IsDigit(c) \/ c \in {".", "_"}

\* the text without one final newline ($ matches before it)
BeforeFinalNewline(s) ==
    IF s # <<>> /\ s[Len(s)] = "\n" THEN SubSeq(s, 1, Len(s) - 1) ELSE s

\* USERNAME_REGEX.match(s).group(1), <<>> when there is no match
USERNAME_REGEX_match(s) ==
    LET body == IF s # <<>> /\ Head(s) = "@" THEN Tail(s) ELSE s
        ok(b) == Len(b) \in 1..30 /\ \A i \in 1..Len(b) : IsUsernameChar(b[i])
    IN  IF ok(body) THEN body
        ELSE IF ok(BeforeFinalNewline(body)) THEN BeforeFinalNewline(body)
        ELSE <<>>

www_instagram_com == <<"w", "w", "w", ".", "i", "n", "s", "t", "a", "g", "r", "a", "m", ".", "c", "o", "m">>

normalize_instagram(value) ==
    IF isna(value) THEN <<>>
    ELSE LET v0 == strip(str(value))
             v  == Without(v0, {" "})
             parsed == urlparse(ForParse(v))
             domain == lower(parsed.netloc)
             path   == CollapseSlashes(rstrip_char(parsed.path, "/"))
             lowerpath == lower(path) \o <<"/">>
         IN  IF v0 = <<>> THEN <<>>
             ELSE IF USERNAME_REGEX_match(v) # <<>>
             THEN www_instagram_com \o <<"/">> \o USERNAME_REGEX_match(v)
             ELSE IF parsed.raises THEN <<>>
             ELSE IF domain \notin INSTAGRAM_DOMAINS THEN <<>>
             ELSE IF ContainsAny(lowerpath, INVALID_INSTAGRAM_SEGMENTS) THEN <<>>
             ELSE IF Len(parts(path)) # 1 THEN <<>>
             ELSE IF USERNAME_REGEX_match(parts(path)[1]) = <<>> THEN <<>>
             ELSE www_instagram_com \o <<"/">> \o parts(path)[1]

(***************************************************************************)
(* clean_number.py.  A number is kept as its decimal digits, so that no    *)
(* value leaves TLC's integer range.                                        *)
(***************************************************************************)
Digits == <<"0", "1", "2", "3", "4", "5", "6", "7", "8", "9">>

DigitValue(c) == LetterIndex(Digits, c) - 1

RECURSIVE StripLeadingZeros(_)
\* the digits of int(d): no leading zero, "0" for zero
StripLeadingZeros(d) ==
    IF d = <<>> THEN <<"0">>
    ELSE IF Head(d) = "0" /\ Len(d) > 1 THEN StripLeadingZeros(Tail(d))
    ELSE d

RECURSIVE Increment(_)
\* the digits of int(d) + 1
Increment(d) ==
    IF d = <<>> THEN <<"1">>
    ELSE IF d[Len(d)] = "9" THEN Increment(SubSeq(d, 1, Len(d) - 1)) \o <<"0">>
    ELSE SubSeq(d, 1, Len(d) - 1) \o <<Digits[DigitValue(d[Len(d)]) + 2]>>

RECURSIVE Decrement(_)
\* the digits of int(d) - 1, for int(d) > 0
Decrement(d) ==
    IF d[Len(d)] = "0" THEN Decrement(SubSeq(d, 1, Len(d) - 1)) \o <<"9">>
    ELSE SubSeq(d, 1, Len(d) - 1) \o <<Digits[DigitValue(d[Len(d)])]>>

Zeros(n) == [i \in 1..n |-> "0"]

\* NON_NUMERIC_REGEX.sub("", text), then every "." after the first removed
extract_number(raw) ==
    IF isna(raw) THEN <<>>
    ELSE LET text    == strip(str(raw))
             cleaned == SelectSeq(text, LAMBDA c : IsDigit(c) \/ c = ".")
             dot     == FirstOf(cleaned, {"."})
         IN  Take(cleaned, dot) \o Without(Drop(cleaned, dot), {"."})

\* The error of the double product float(value) * 10 ** places against the
\* exact product, as its sign, for the products that are whole numbers: the
\* doubles of the values the tables of this model hold (from IEEE 754
\* arithmetic; every other product of theirs is exact or not whole).
InexactProducts ==
    {<<<<"0", ".", "0", "7">>, 2, 1>>,
     <<<<"0", ".", "2", "8">>, 2, 1>>,
     <<<<"0", ".", "2", "9">>, 2, -1>>,
     <<<<"1", ".", "0", "0", "5">>, 3, -1>>,
     <<<<"1", ".", "1">>, 2, 1>>,
     <<<<"1", ".", "1", "0">>, 2, 1>>,
     <<<<"1", ".", "1", "1">>, 2, 1>>,
     <<<<"1", ".", "1", "2">>, 2, 1>>,
     <<<<"1", ".", "1", "3">>, 2, -1>>,
     <<<<"4", ".", "3", "5">>, 2, -1>>,
     <<<<"4", ".", "4">>, 2, 1>>}

\* The whole numbers of the tables of this model that are no double, each
\* with int(float(value)), the double nearest to it.
InexactDoubles ==
    {<<<<"9", "0", "0", "7", "1", "9", "9", "2", "5", "4", "7", "4", "0", "9", "9", "3">>,
       <<"9", "0", "0", "7", "1", "9", "9", "2", "5", "4", "7", "4", "0", "9", "9", "2">>>>}

\* the digits of float(value), a number that str(value) need not give back
NearestDouble(value) ==
    IF \E t \in InexactDoubles : t[1] = value
    THEN (CHOOSE t \in InexactDoubles : t[1] = value)[2]
    ELSE value

ProductError(value, places) ==
    IF \E t \in InexactProducts : t[1] = value /\ t[2] = places
    THEN (CHOOSE t \in InexactProducts : t[1] = value /\ t[2] = places)[3]
    ELSE 0

\* "{:.<places>f}".format(n / 10 ** places) for the whole number n
FormatFixed(n, places) ==
    LET d == StripLeadingZeros(n)
        p == IF Len(d) > places THEN d ELSE Zeros(places + 1 - Len(d)) \o d
    IN  IF places = 0 THEN p
        ELSE SubSeq(p, 1, Len(p) - places) \o <<".">>
             \o SubSeq(p, Len(p) - places + 1, Len(p))

\* the exception of int(num) and of math.ceil, math.floor for an infinite num
OverflowError == <<"OverflowError">>

\* 2^1024 - 2^970, the least whole number whose nearest double is inf
DoubleOverflow ==
    <<"1", "7", "9", "7", "6", "9", "3", "1", "3", "4", "8", "6", "2",
       "3", "1", "5", "8", "0", "7", "9", "3", "7", "2", "8", "9", "7",
       "1", "4", "0", "5", "3", "0", "3", "4", "1", "5", "0", "7", "9",
       "9", "3", "4", "1", "3", "2", "7", "1", "0", "0", "3", "7", "8",
       "2", "6", "9", "3", "6", "1", "7", "3", "7", "7", "8", "9", "8",
       "0", "4", "4", "4", "9", "6", "8", "2", "9", "2", "7", "6", "4",
       "7", "5", "0", "9", "4", "6", "6", "4", "9", "0", "1", "7", "9",
       "7", "7", "5", "8", "7", "2", "0", "7", "0", "9", "6", "3", "3",
       "0", "2", "8", "6", "4", "1", "6", "6", "9", "2", "8", "8", "7",
       "9", "1", "0", "9", "4", "6", "5", "5", "5", "5", "4", "7", "8",
       "5", "1", "9", "4", "0", "4", "0", "2", "6", "3", "0", "6", "5",
       "7", "4", "8", "8", "6", "7", "1", "5", "0", "5", "8", "2", "0",
       "6", "8", "1", "9", "0", "8", "9", "0", "2", "0", "0", "0", "7",
       "0", "8", "3", "8", "3", "6", "7", "6", "2", "7", "3", "8", "5",
       "4", "8", "4", "5", "8", "1", "7", "7", "1", "1", "5", "3", "1",
       "7", "6", "4", "4", "7", "5", "7", "3", "0", "2", "7", "0", "0",
       "6", "9", "8", "5", "5", "5", "7", "1", "3", "6", "6", "9", "5",
       "9", "6", "2", "2", "8", "4", "2", "9", "1", "4", "8", "1", "9",
       "8", "6", "0", "8", "3", "4", "9", "3", "6", "4", "7", "5", "2",
       "9", "2", "7", "1", "9", "0", "7", "4", "1", "6", "8", "4", "4",
       "4", "3", "6", "5", "5", "1", "0", "7", "0", "4", "3", "4", "2",
       "7", "1", "1", "5", "5", "9", "6", "9", "9", "5", "0", "8", "0",
       "9", "3", "0", "4", "2", "8", "8", "0", "1", "7", "7", "9", "0",
       "4", "1", "7", "4", "4", "9", "7", "7", "9", "2">>

\* float() of the whole number with these digits is inf
IsInfinite(digits) ==
    LET d == StripLeadingZeros(digits)
        t == DoubleOverflow
    IN  \/ Len(d) > Len(t)
        \/ /\ Len(d) = Len(t)
           /\ \/ d = t
              \/ \E i \in 1..Len(t) :
                    /\ DigitValue(d[i]) > DigitValue(t[i])
                    /\ \A j \in 1..(i - 1) : d[j] = t[j]

convert_number(value, mode, places, round_mode) ==
    IF value = <<>> THEN <<>>
    ELSE IF \A i \in 1..Len(value) : ~IsDigit(value[i]) THEN <<>>
    ELSE IF IsInfinite(Take(value, FirstOf(value, {"."}) - 1)
                       \o (IF mode = "integer" THEN <<>>
                           ELSE Take(Drop(value, FirstOf(value, {"."}))
                                     \o Zeros(places), places)))
    THEN OverflowError
    ELSE LET num      == NearestDouble(value)
             dot      == FirstOf(num, {"."})
             whole    == SubSeq(num, 1, dot - 1)
             fraction == Drop(num, dot)
             padded   == fraction \o Zeros(places)
             scaled   == whole \o SubSeq(padded, 1, places)
             rest     == Drop(padded, places)
             isWhole  == \A i \in 1..Len(rest) : rest[i] = "0"
             err      == IF isWhole THEN ProductError(num, places) ELSE 0
             up       == IF ~isWhole \/ err > 0 THEN Increment(scaled) ELSE scaled
             down     == IF err < 0 THEN Decrement(scaled) ELSE scaled
         IN  IF mode = "integer" THEN StripLeadingZeros(whole)
             ELSE FormatFixed(IF round_mode = "up" THEN up ELSE down, places)

(***************************************************************************)
(* clean_phone.py                                                           *)
(***************************************************************************)
IsPhoneBodyChar(c) == IsDigit(c) \/ IsSpace(c) \/ c \in {"-", ".", "(", ")"}

\* the ends of the matches of PHONE_LIKE_REGEX that start at position i
PhoneMatchEnds(s, i) ==
    LET d == IF s[i] = "+" THEN i + 1 ELSE i
    IN  {e \in (d + 7)..Len(s) :
            /\ i = 1 \/ ~IsDigit(s[i-1])
            /\ IsDigit(s[d])
            /\ e - d - 1 <= 20
            /\ \A k \in (d + 1)..(e - 1) : IsPhoneBodyChar(s[k])
            /\ IsDigit(s[e])
            /\ e = Len(s) \/ ~IsDigit(s[e+1])}

PhoneMatchStarts(s) == {i \in 1..Len(s) : PhoneMatchEnds(s, i) # {}}

\* PHONE_LIKE_REGEX.search(text).group(1): the leftmost match, at its
\* longest
PhoneCandidate(s) ==
    LET i == Min(PhoneMatchStarts(s))
    IN  SubSeq(s, i, Max(PhoneMatchEnds(s, i)))

normalize_raw_digits(raw0) ==
    LET raw == strip(raw0)
    IN  IF startswith(raw, <<"+">>)
        THEN <<"+">> \o SelectSeq(Tail(raw), IsDigit)
        ELSE SelectSeq(raw, IsDigit)

\* phonenumbers.parse and is_valid_number for the North American plan: "+1",
\* an area code and an exchange that start with 2..9, ten digits in all
is_valid_number(number) ==
    /\ Len(number) = 12
    /\ SubSeq(number, 1, 2) = <<"+", "1">>
    /\ number[3] \notin {"0", "1"}
    /\ number[6] \notin {"0", "1"}

\* phonenumbers.format_number(parsed, E164) of a valid number
format_number(number) == number

normalize_to_e164(raw) ==
    IF raw = <<>> THEN raw
    ELSE LET digits  == normalize_raw_digits(raw)
             assumed == <<"+", "1">> \o digits
         IN  IF startswith(digits, <<"+">>)
             THEN IF is_valid_number(digits) THEN format_number(digits) ELSE digits
             ELSE IF is_valid_number(assumed) THEN format_number(assumed) ELSE assumed

extract_and_clean_phone(value) ==
    IF isna(value) THEN value
    ELSE LET text == strip(str(value))
         IN  IF text = <<>> THEN text
             ELSE IF PhoneMatchStarts(text) = {} THEN value
             ELSE normalize_to_e164(PhoneCandidate(text))

(***************************************************************************)
(* clean_main.py: main().                                                   *)
(***************************************************************************)
VARIABLES
    argv,          \* sys.argv of clean_main.py
    config,        \* CONFIG as edited in the file
    fs,            \* the CSV files on disk: name -> header
    logs,          \* the text files on disk: name -> lines
    pc,            \* where main() is
    input_path,
    main_log,
    current_file,
    step_index,
    entry,         \* position of the for loop in pipeline
    procs,         \* the child processes started so far, in order
    error,         \* the exception that ended the run, "" when none
    stdout

mainVars == <<argv, config, fs, logs, pc, input_path, main_log, current_file,
              step_index, entry, procs, error, stdout>>

VARIABLES
    tool,          \* the script of the tool that runs on its own
    options,       \* the options of its command line
    input_csv,     \* the input file as read_csv_with_fallback loaded it
    df,            \* the DataFrame clean_dataframe works on
    columns,       \* the column selection
    changes,       \* the changes list of clean_dataframe
    col_index,     \* position of "for col in columns"
    row,           \* the rows of the column that apply has gone through
    series,        \* the results of apply so far
    tool_pc,       \* where the tool is
    tool_error,    \* the exception that ended the tool, "" when none
    output_csv,    \* the cleaned CSV on disk, <<>> while not written
    output_log     \* the change log on disk, <<>> while not written

toolVars == <<tool, options, input_csv, df, columns, changes, col_index, row,
              series, tool_pc, tool_error, output_csv, output_log>>

\* One cell through one normalizer, the function each tool gives to apply():
\* the cell it is given and what it returns, applied again to its own result.
VARIABLES
    cell,
    results

normVars == <<cell, results>>

\* What dedupe_dataframe of clean_duplicate.py returns.
VARIABLES
    deduped,
    removed_rows,
    before,
    after,
    removed_count

dedupeVars == <<deduped, removed_rows, before, after, removed_count>>

\* read_csv_with_fallback of a tool.
VARIABLES
    file,        \* the bytes of the input file, by what they decode as
    attempts,    \* the encodings pd.read_csv was called with so far
    loaded,      \* the table returned, with the encoding it was read in
    reported     \* the encodings printed as used

loadVars == <<file, attempts, loaded, reported>>

\* Two invocations of one tool at the same time, in one directory.
VARIABLES
    disk,          \* the files of the directory: name -> lines
    invocations,   \* each invocation: its input, where it is, what it holds
    closes         \* the files closed so far, in order, with who closed them

concVars == <<disk, invocations, closes>>

\* One tool after another on one file, each reading what the last one wrote.
VARIABLES
    chain          \* the input file and, in order, the files the steps wrote

chainVars == <<chain>>

vars == <<mainVars, toolVars, normVars, dedupeVars, loadVars, concVars,
          chainVars>>

\* the header of an input file: the CONFIG columns in this order, some missing
ColumnOrder == <<
    "Business_Name", "Business_Phone", "Business_Email", "Business_Website",
    "Business_City", "Business_State", "Business_Zip/Postal Code",
    "Business_LinkedIn", "Business_Facebook", "Business_Instagram",
    "Distance", "decimal", "1", "round" >>

HeaderWithout(missing) == SelectSeq(ColumnOrder, LAMBDA c : c \notin missing)

DefaultName == <<"input", ".", "csv">>

MainLogName == "clean_main_log.txt"

\* no tool runs on its own while the orchestrator is followed
NormIdle ==
    /\ cell = <<>>
    /\ results = <<>>

LoadIdle ==
    /\ file = ""
    /\ attempts = <<>>
    /\ loaded = <<>>
    /\ reported = <<>>

ConcIdle ==
    /\ disk = <<>>
    /\ invocations = <<>>
    /\ closes = <<>>

ChainIdle == chain = <<>>

DedupeIdle ==
    /\ deduped = <<>>
    /\ removed_rows = <<>>
    /\ before = 0
    /\ after = 0
    /\ removed_count = 0

ToolIdle ==
    /\ tool = ""
    /\ options = <<>>
    /\ input_csv = <<>>
    /\ df = <<>>
    /\ columns = <<>>
    /\ changes = <<>>
    /\ col_index = 0
    /\ row = 0
    /\ series = <<>>
    /\ tool_pc = "idle"
    /\ tool_error = ""
    /\ output_csv = <<>>
    /\ output_log = <<>>

Init ==
    \E name \in InputNames, missing \in SubsetsUpTo(Columns, MaxMissing),
       edits \in SubsetsUpTo(ConfigEdits, MaxConfigEdits),
       how \in {"run", "no argument", "no file"} :
        /\ how # "run" => missing = {} /\ edits = {}
        /\ name # DefaultName => how = "run" /\ edits = {}
        /\ argv = IF how = "no argument" THEN <<"clean_main.py">>
                  ELSE <<"clean_main.py", name>>
        /\ config = EditedConfig(edits)
        /\ fs = IF how = "run" THEN name :> HeaderWithout(missing) ELSE <<>>
        /\ logs = <<>>
        /\ pc = "start"
        /\ input_path = <<>>
        /\ main_log = <<>>
        /\ current_file = <<>>
        /\ step_index = 0
        /\ entry = 0
        /\ procs = <<>>
        /\ error = ""
        /\ stdout = <<>>
        /\ ToolIdle
    /\ NormIdle
    /\ DedupeIdle
    /\ LoadIdle
    /\ ConcIdle
    /\ ChainIdle

script_of(k) == pipeline[k][1]
run_key(k)   == pipeline[k][2]
args_key(k)  == pipeline[k][3]

\* (mutant) the column check always passes
column_exists_always(csv_path, col) == TRUE

\* column_exists(csv_path, col)
column_exists(csv_path, col) == col \in Range(fs[csv_path])

\* lines 80-82: no input argument
Usage ==
    /\ pc = "start"
    /\ Len(argv) < 2
    /\ stdout' = Append(stdout, Line("USAGE", "clean_main.py", 0, <<>>, <<>>))
    /\ error' = "SystemExit"
    /\ pc' = "exit"
    /\ UNCHANGED <<argv, config, fs, logs, input_path, main_log, current_file,
                   step_index, entry, procs>>
    /\ UNCHANGED <<toolVars, normVars, dedupeVars, loadVars, concVars, chainVars>>

\* lines 84-86: the input file does not exist
InputNotFound ==
    /\ pc = "start"
    /\ Len(argv) >= 2
    /\ argv[2] \notin DOMAIN fs
    /\ input_path' = argv[2]
    /\ error' = "FileNotFoundError"
    /\ pc' = "exit"
    /\ UNCHANGED <<argv, config, fs, logs, main_log, current_file, step_index,
                   entry, procs, stdout>>
    /\ UNCHANGED <<toolVars, normVars, dedupeVars, loadVars, concVars, chainVars>>

\* lines 84-104: past argument checking, the loop starts
Begin ==
    /\ pc = "start"
    /\ Len(argv) >= 2
    /\ argv[2] \in DOMAIN fs
    /\ input_path' = argv[2]
    /\ main_log' = <<>>
    /\ current_file' = argv[2]
    /\ step_index' = 1
    /\ entry' = 1
    /\ pc' = "loop"
    /\ UNCHANGED <<argv, config, fs, logs, procs, error, stdout>>
    /\ UNCHANGED <<toolVars, normVars, dedupeVars, loadVars, concVars, chainVars>>

\* lines 108-110
SkipDisabled ==
    /\ pc = "loop"
    /\ entry \in Entries
    /\ ~config[run_key(entry)]
    /\ main_log' = Append(main_log,
            Line("SKIP disabled", script_of(entry), 0, <<>>, <<>>))
    /\ entry' = entry + 1
    /\ UNCHANGED <<argv, config, fs, logs, pc, input_path, current_file,
                   step_index, procs, error, stdout>>
    /\ UNCHANGED <<toolVars, normVars, dedupeVars, loadVars, concVars, chainVars>>

\* lines 112-122
SkipColumnNotFound ==
    /\ pc = "loop"
    /\ entry \in Entries
    /\ config[run_key(entry)]
    /\ ~column_exists(current_file, config[args_key(entry)][1])
    /\ main_log' = Append(main_log,
            Line("SKIP column not found", script_of(entry), 0, current_file,
                 <<config[args_key(entry)][1]>>))
    /\ entry' = entry + 1
    /\ UNCHANGED <<argv, config, fs, logs, pc, input_path, current_file,
                   step_index, procs, error, stdout>>
    /\ UNCHANGED <<toolVars, normVars, dedupeVars, loadVars, concVars, chainVars>>

\* (mutant) the child is started and not waited for
RunStepNoWait ==
    /\ pc = "loop"
    /\ entry \in Entries
    /\ config[run_key(entry)]
    /\ column_exists(current_file, config[args_key(entry)][1])
    /\ procs' = Append(procs,
            [script |-> script_of(entry), input |-> current_file,
             args |-> config[args_key(entry)], state |-> "running",
             returncode |-> -1])
    /\ main_log' = main_log \o
            << Line("RUN", script_of(entry), step_index, current_file, <<>>),
               Line("Args", script_of(entry), step_index, <<>>,
                    config[args_key(entry)]) >>
    /\ entry' = entry + 1
    /\ UNCHANGED <<argv, config, fs, logs, pc, input_path, current_file,
                   step_index, error, stdout>>
    /\ UNCHANGED <<toolVars, normVars, dedupeVars, loadVars, concVars, chainVars>>

\* lines 124-128 and 54-56: log the step and start the child; subprocess.run
\* blocks until the child has exited
RunStep ==
    /\ pc = "loop"
    /\ entry \in Entries
    /\ config[run_key(entry)]
    /\ column_exists(current_file, config[args_key(entry)][1])
    /\ main_log' = main_log \o
            << Line("RUN", script_of(entry), step_index, current_file, <<>>),
               Line("Args", script_of(entry), step_index, <<>>,
                    config[args_key(entry)]) >>
    /\ procs' = Append(procs,
            [script |-> script_of(entry), input |-> current_file,
             args |-> config[args_key(entry)], state |-> "running",
             returncode |-> -1])
    /\ pc' = "wait"
    /\ UNCHANGED <<argv, config, fs, logs, input_path, current_file, step_index,
                   entry, error, stdout>>
    /\ UNCHANGED <<toolVars, normVars, dedupeVars, loadVars, concVars, chainVars>>

\* the child runs to its end
ChildExit ==
    /\ pc = "wait"
    /\ LET child == procs[Len(procs)]
           r == ToolRun(child.script, child.input, child.args, fs, logs)
       IN  /\ fs' = r.files
           /\ logs' = r.logs
           /\ procs' = [procs EXCEPT ![Len(procs)].state = "exited",
                                     ![Len(procs)].returncode = r.returncode]
    /\ pc' = "returned"
    /\ UNCHANGED <<argv, config, input_path, main_log, current_file, step_index,
                   entry, error, stdout>>
    /\ UNCHANGED <<toolVars, normVars, dedupeVars, loadVars, concVars, chainVars>>

\* (mutant) subprocess.run without check=True: the failure is not noticed
ChildFailedUnchecked ==
    /\ pc = "returned"
    /\ procs[Len(procs)].returncode # 0
    /\ entry' = entry + 1
    /\ pc' = "loop"
    /\ UNCHANGED <<argv, config, fs, logs, input_path, main_log, current_file,
                   step_index, procs, error, stdout>>
    /\ UNCHANGED <<toolVars, normVars, dedupeVars, loadVars, concVars, chainVars>>

\* line 56: check=True raises CalledProcessError, which nothing catches
ChildFailed ==
    /\ pc = "returned"
    /\ procs[Len(procs)].returncode # 0
    /\ error' = "CalledProcessError"
    /\ pc' = "exit"
    /\ UNCHANGED <<argv, config, fs, logs, input_path, main_log, current_file,
                   step_index, entry, procs, stdout>>
    /\ UNCHANGED <<toolVars, normVars, dedupeVars, loadVars, concVars, chainVars>>

\* (mutant) the output name is not derived: the pointer stays where it was
next_file_not_derived == current_file

\* lines 131-133
next_file == CleanedName(current_file)

\* (mutant) the existence check is left out: the run goes on to the next entry
OutputMissingUnchecked ==
    /\ pc = "returned"
    /\ procs[Len(procs)].returncode = 0
    /\ next_file \notin DOMAIN fs
    /\ step_index' = step_index + 1
    /\ entry' = entry + 1
    /\ pc' = "loop"
    /\ UNCHANGED <<argv, config, fs, logs, input_path, main_log, current_file,
                   procs, error, stdout>>
    /\ UNCHANGED <<toolVars, normVars, dedupeVars, loadVars, concVars, chainVars>>

\* lines 135-136
OutputMissing ==
    /\ pc = "returned"
    /\ procs[Len(procs)].returncode = 0
    /\ next_file \notin DOMAIN fs
    /\ error' = "RuntimeError"
    /\ pc' = "exit"
    /\ UNCHANGED <<argv, config, fs, logs, input_path, main_log, current_file,
                   step_index, entry, procs, stdout>>
    /\ UNCHANGED <<toolVars, normVars, dedupeVars, loadVars, concVars, chainVars>>

\* (mutant) the step counter is not advanced
AdvanceSameStep ==
    /\ pc = "returned"
    /\ procs[Len(procs)].returncode = 0
    /\ next_file \in DOMAIN fs
    /\ main_log' = Append(main_log,
            Line("Output", script_of(entry), step_index, next_file, <<>>))
    /\ current_file' = next_file
    /\ entry' = entry + 1
    /\ pc' = "loop"
    /\ UNCHANGED <<argv, config, fs, logs, input_path, procs, error, stdout,
                   step_index>>
    /\ UNCHANGED <<toolVars, normVars, dedupeVars, loadVars, concVars, chainVars>>

\* lines 138-141
Advance ==
    /\ pc = "returned"
    /\ procs[Len(procs)].returncode = 0
    /\ next_file \in DOMAIN fs
    /\ main_log' = Append(main_log,
            Line("Output", script_of(entry), step_index, next_file, <<>>))
    /\ current_file' = next_file
    /\ step_index' = step_index + 1
    /\ entry' = entry + 1
    /\ pc' = "loop"
    /\ UNCHANGED <<argv, config, fs, logs, input_path, procs, error, stdout>>
    /\ UNCHANGED <<toolVars, normVars, dedupeVars, loadVars, concVars, chainVars>>

\* lines 143-153 and 59-66: after the last entry
Finish ==
    /\ pc = "loop"
    /\ entry = Len(pipeline) + 1
    /\ main_log' = Append(main_log, Line("FINAL OUTPUT", "", 0, current_file, <<>>))
    /\ logs' = (MainLogName :> main_log') @@ logs
    /\ stdout' = stdout \o
            << Line("PIPELINE COMPLETE", "", 0, <<>>, <<>>),
               Line("Final cleaned file", "", 0, current_file, <<>>),
               Line("Main log saved", "", 0, <<MainLogName>>, <<>>) >>
    /\ pc' = "done"
    /\ UNCHANGED <<argv, config, fs, input_path, current_file, step_index,
                   entry, procs, error>>
    /\ UNCHANGED <<toolVars, normVars, dedupeVars, loadVars, concVars, chainVars>>

Next ==
    \/ Usage
    \/ InputNotFound
    \/ Begin
    \/ SkipDisabled
    \/ SkipColumnNotFound
    \/ RunStep
    \/ ChildExit
    \/ ChildFailed
    \/ OutputMissing
    \/ Advance
    \/ Finish

Spec == Init /\ [][Next]_vars

\* main() is one sequential program: it takes its next step whenever it has
\* one, and subprocess.run returns once the child has exited, which every
\* child does
SpecLive == Init /\ [][Next]_vars /\ WF_vars(Next)

(***************************************************************************)
(* One run of a per-cell tool: main() from the loaded table on, with        *)
(* clean_dataframe taken one cell at a time.                                *)
(***************************************************************************)
\* the tools that clean cell by cell
CellTools == {"clean_phone.py", "clean_email.py", "clean_state.py",
              "clean_zip.py", "clean_website.py", "clean_facebook.py",
              "clean_linkedin.py", "clean_instagram.py", "clean_alphanum.py",
              "clean_number.py"}

\* the tools whose clean_dataframe collects a changes list
ChangeTools == CellTools \ {"clean_zip.py", "clean_number.py"}

\* the options a tool's main() gives to clean_dataframe
DefaultOptions ==
    [mode |-> "", places |-> 0, round_mode |-> "", extra_chars |-> <<>>,
     replacement |-> <<>>, strip_alpha |-> FALSE, strip_num |-> FALSE]

OptionsOf(script) ==
    CASE script = "clean_state.py" ->
            {[DefaultOptions EXCEPT !.mode = m] : m \in {"abbr", "full"}}
      [] script = "clean_number.py" ->
            {[DefaultOptions EXCEPT !.mode = "integer", !.places = 2,
                                    !.round_mode = "up"],
             [DefaultOptions EXCEPT !.mode = "decimal", !.places = 1,
                                    !.round_mode = "up"],
             [DefaultOptions EXCEPT !.mode = "decimal", !.places = 2,
                                    !.round_mode = "down"]}
      [] script = "clean_alphanum.py" ->
            {DefaultOptions,
             [DefaultOptions EXCEPT !.extra_chars = <<"-">>,
                                    !.replacement = <<" ">>],
             [DefaultOptions EXCEPT !.strip_num = TRUE]}
      [] OTHER -> {DefaultOptions}

\* the cells a column of the tool's kind holds in the tables of the model; an
\* empty field of the file is loaded as a missing cell
SampleCells(script) ==
    CASE script = "clean_phone.py" ->
          << NaN,
             <<"(", "2", "1", "2", ")", " ", "5", "5", "5", "-", "0", "1", "9", "9">>,
             <<"+", "1", "2", "1", "2", "5", "5", "5", "0", "1", "9", "9">>,
             <<" ", "n", "/", "a", " ">>,
             <<"x", " ", "5", "5", "5", ".", "1", "2", "3", ".", "4", "5", "6", "7">> >>
      [] script = "clean_email.py" ->
          << NaN,
             <<" ", "a", "@", "b", ".", "c", "o", " ">>,
             <<"a", "@", "b", ".", "c", "o">>,
             <<"B", "o", "b", " ", "<", "B", "@", "X", ".", "i", "o", ">">>,
             <<"n", "o", "p", "e">> >>
      [] script = "clean_state.py" ->
          << NaN,
             <<" ", "c", "a", " ">>,
             <<"C", "A">>,
             <<"T", "e", "x", "a", "s">>,
             <<"z", "z">> >>
      [] script = "clean_zip.py" ->
          << NaN,
             <<"1", "2", "3", "4", "5", "-", "6", "7", "8", "9">>,
             <<"1", "2", "3", "4", "5">>,
             <<"a", "b">>,
             <<" ", "0", "2", "1", " ">> >>
      [] script = "clean_website.py" ->
          << NaN,
             <<"h", "t", "t", "p", ":", "/", "/", "E", "x", "a", "m", "p", "l", "e", ".", "c", "o", "m", "/", "a", "/">>,
             <<"w", "w", "w", ".", "x", ".", "i", "o">>,
             <<" ", "x", ".", "i", "o", "/", "/", "b", " ">>,
             <<"h", "t", "t", "p", "s", ":", "/", "/", "x", ".", "i", "o", "/", "p", "?", "q", "=", "1">> >>
      [] script = "clean_facebook.py" ->
          << NaN,
             <<"f", "b", ".", "c", "o", "m", "/", "a", "c", "m", "e">>,
             <<"w", "w", "w", ".", "f", "a", "c", "e", "b", "o", "o", "k", ".", "c", "o", "m", "/", "a", "c", "m", "e">>,
             <<"f", "a", "c", "e", "b", "o", "o", "k", ".", "c", "o", "m", "/", "a", "c", "m", "e", "/", "p", "o", "s", "t", "s", "/", "1">>,
             <<"x", ".", "c", "o", "m", "/", "a", "c", "m", "e">> >>
      [] script = "clean_linkedin.py" ->
          << NaN,
             <<"l", "i", "n", "k", "e", "d", "i", "n", ".", "c", "o", "m", "/", "i", "n", "/", "b", "o", "b", "/">>,
             <<"w", "w", "w", ".", "l", "i", "n", "k", "e", "d", "i", "n", ".", "c", "o", "m", "/", "i", "n", "/", "b", "o", "b">>,
             <<"n", "o", "t", "l", "i", "n", "k", "e", "d", "i", "n", ".", "c", "o", "m", "/", "i", "n", "/", "x">>,
             <<"l", "i", "n", "k", "e", "d", "i", "n", ".", "c", "o", "m", "/", "f", "e", "e", "d">> >>
      [] script = "clean_instagram.py" ->
          << NaN,
             <<"@", "b", "o", "b">>,
             <<"i", "n", "s", "t", "a", "g", "r", "a", "m", ".", "c", "o", "m", "/", "b", "o", "b", "/">>,
             <<"w", "w", "w", ".", "i", "n", "s", "t", "a", "g", "r", "a", "m", ".", "c", "o", "m", "/", "b", "o", "b">>,
             <<"i", "n", "s", "t", "a", "g", "r", "a", "m", ".", "c", "o", "m", "/", "p", "/", "x", "y", "z">> >>
      [] script = "clean_alphanum.py" ->
          << NaN,
             <<"S", "a", "n", "-", "J", "o", "s", "e", "!">>,
             <<"A", "u", "s", "t", "i", "n">>,
             <<" ", "S", "t", ".", " ", "P", "a", "u", "l", " ">>,
             <<"A", "1", "#", "b", "2">> >>
      [] script = "clean_number.py" ->
          << NaN,
             <<"1", "2", ".", "5", " ", "m", "i">>,
             <<"1", ".", "1">>,
             <<"a", "b", "c">>,
             <<"1", ".", "2", ".", "3">>,
             <<"2">> \o Zeros(308) >>

TableHeader == <<"First", "Second", "Notes">>

\* row k holds two cells of the tool's kind and a note
SampleRows(script) ==
    LET cells == SampleCells(script)
    IN  {<<cells[k], cells[(k % Len(cells)) + 1], <<"n", Digits[k + 1]>>>> :
            k \in 1..Len(cells)}

SeqsUpTo(S, n) == UNION {[1..k -> S] : k \in 0..n}

Tables(script) ==
    {[header |-> TableHeader, rows |-> rows] :
        rows \in SeqsUpTo(SampleRows(script), MaxRows)}

\* the explicit column selections of a command line
Selections ==
    {<<"First">>, <<"Second">>, <<"First", "Second">>, <<"Second", "First">>,
     <<"First", "First">>, <<"Absent">>, <<"First", "Absent">>}

\* the position of column col in the table
ColumnIndex(t, col) == CHOOSE i \in 1..Len(t.header) : t.header[i] = col

\* df[col].iloc[r]
Cell(t, r, col) == t.rows[r][ColumnIndex(t, col)]

\* (mutant) the cleaned values go to a new column beside the old one
SetColumnAsNew(t, col, values) ==
    [header |-> Append(t.header, col),
     rows   |-> [r \in 1..Len(t.rows) |-> Append(t.rows[r], values[r])]]

\* df[col] = values: the column is replaced in place, a new name is appended
SetColumn(t, col, values) ==
    IF col \in Range(t.header)
    THEN [t EXCEPT !.rows = [r \in 1..Len(t.rows) |->
                        [t.rows[r] EXCEPT ![ColumnIndex(t, col)] = values[r]]]]
    ELSE [header |-> Append(t.header, col),
          rows   |-> [r \in 1..Len(t.rows) |-> Append(t.rows[r], values[r])]]

\* df.to_csv(output_path, index=False): a missing cell is written as an empty
\* field
to_csv(t) ==
    [t EXCEPT !.rows = [r \in 1..Len(t.rows) |->
        [c \in 1..Len(t.rows[r]) |->
            IF isna(t.rows[r][c]) THEN <<>> ELSE t.rows[r][c]]]]

\* the function clean_dataframe applies to each cell of a selected column
clean_cell(script, opts, val) ==
    CASE script = "clean_phone.py"     -> extract_and_clean_phone(val)
      [] script = "clean_email.py"     -> extract_email(val)
      [] script = "clean_state.py"     -> clean_state(val, opts.mode)
      [] script = "clean_zip.py"       -> clean_zip(val)
      [] script = "clean_website.py"   -> normalize_url(val)
      [] script = "clean_facebook.py"  -> normalize_facebook_url(val)
      [] script = "clean_linkedin.py"  -> normalize_linkedin_url(val)
      [] script = "clean_instagram.py" -> normalize_instagram(val)
      [] script = "clean_alphanum.py"  ->
            clean_value(val, opts.extra_chars, opts.replacement,
                        opts.strip_alpha, opts.strip_num)
      [] script = "clean_number.py"    ->
            convert_number(extract_number(val), opts.mode, opts.places,
                           opts.round_mode)

\* the test before changes.append: str(val) != newval in clean_alphanum.py,
\* str(val).strip() != cleaned in the other tools
RecordsChange(script, val, cleaned) ==
    IF script = "clean_alphanum.py"
    THEN PyNotEqual(str(val), cleaned)
    ELSE PyNotEqual(strip(str(val)), cleaned)

\* (mutant) the record names the table's first column
ChangeRecordFirstColumn(val, cleaned, col) ==
    [old |-> str(val), new |-> cleaned, col |-> TableHeader[1]]

\* (str(val), cleaned, col)
ChangeRecord(val, cleaned, col) ==
    [old |-> str(val), new |-> cleaned, col |-> col]

\* one line of a change log; the rules under the headings and the blank
\* lines are left out
LogLine(tag, text, old, new, n) ==
    [tag |-> tag, text |-> text, old |-> old, new |-> new, n |-> n]

\* the first line write_log writes
LogTitle(script) ==
    CASE script = "clean_phone.py"     -> "CLEAN PHONE LOG"
      [] script = "clean_email.py"     -> "CLEAN EMAIL LOG"
      [] script = "clean_state.py"     -> "CLEAN STATE LOG"
      [] script = "clean_website.py"   -> "CLEAN WEBSITE LOG"
      [] script = "clean_facebook.py"  -> "CLEAN FACEBOOK LOG"
      [] script = "clean_linkedin.py"  -> "CLEAN LINKEDIN LOG"
      [] script = "clean_instagram.py" -> "CLEAN INSTAGRAM LOG"
      [] script = "clean_alphanum.py"  -> "CLEAN ALPHANUM LOG"

\* the tools whose write_log writes a "Total changed ...: len(changes)" line
CountingTools == {"clean_phone.py", "clean_state.py", "clean_alphanum.py"}

\* write_log(log_path, columns, changes), in clean_state.py with the mode:
\* the lines of the file it writes
write_log(script, cols, mode, chg) ==
    <<LogLine("title", LogTitle(script), <<>>, <<>>, 0)>>
    \o (IF script = "clean_state.py"
        THEN <<LogLine("mode", mode, <<>>, <<>>, 0)>> ELSE <<>>)
    \o <<LogLine("columns heading", "Columns cleaned:", <<>>, <<>>, 0)>>
    \o [i \in 1..Len(cols) |-> LogLine("column", cols[i], <<>>, <<>>, 0)]
    \o (IF script \in CountingTools
        THEN <<LogLine("count", "Total changed", <<>>, <<>>, Len(chg))>>
        ELSE <<>>)
    \o <<LogLine("changes heading",
                 IF script \in {"clean_phone.py", "clean_state.py"}
                 THEN "Changed entries:" ELSE "Changed values:",
                 <<>>, <<>>, 0)>>
    \o (IF chg = <<>>
        THEN <<LogLine("no changes",
                       IF script = "clean_website.py"
                       THEN "No values were changed." ELSE "No values changed.",
                       <<>>, <<>>, 0)>>
        ELSE [i \in 1..Len(chg) |->
                 LogLine("change", chg[i].col, chg[i].old, str(chg[i].new), 0)])

\* the state of the orchestrator while a tool is run on its own
MainIdle ==
    /\ argv = <<>>
    /\ config = CONFIG
    /\ fs = <<>>
    /\ logs = <<>>
    /\ pc = "idle"
    /\ input_path = <<>>
    /\ main_log = <<>>
    /\ current_file = <<>>
    /\ step_index = 0
    /\ entry = 0
    /\ procs = <<>>
    /\ error = ""
    /\ stdout = <<>>

\* the table is loaded, the command line is parsed, clean_dataframe is entered
InitTool ==
    /\ MainIdle
    /\ \E script \in CellTools :
         \E opts \in OptionsOf(script), t \in Tables(script),
            selection \in Selections :
            /\ script = "clean_zip.py" => Len(selection) = 1
            /\ tool = script
            /\ options = opts
            /\ input_csv = t
            /\ df = t
            /\ columns = selection
    /\ changes = <<>>
    /\ col_index = 1
    /\ row = 0
    /\ series = <<>>
    /\ tool_pc = "clean"
    /\ tool_error = ""
    /\ output_csv = <<>>
    /\ output_log = <<>>
    /\ NormIdle
    /\ DedupeIdle
    /\ LoadIdle
    /\ ConcIdle
    /\ ChainIdle

\* the column the for loop is at
col == columns[col_index]

\* clean_zip.py line 69-70, clean_number.py line 111-112: ValueError; in the
\* other tools df[col] raises KeyError.  Nothing catches it: no file is
\* written.
ColumnNotFound ==
    /\ tool_pc = "clean"
    /\ col_index <= Len(columns)
    /\ col \notin Range(df.header)
    /\ tool_error' = IF tool \in {"clean_zip.py", "clean_number.py"}
                     THEN "ValueError" ELSE "KeyError"
    /\ tool_pc' = "exit"
    /\ UNCHANGED <<tool, options, input_csv, df, columns, changes, col_index,
                   row, series, output_csv, output_log>>
    /\ UNCHANGED <<mainVars, normVars, dedupeVars, loadVars, concVars, chainVars>>

\* one call of the function given to apply: the cell is cleaned and, in the
\* tools that collect changes, compared with what it was
CleanCell ==
    /\ tool_pc = "clean"
    /\ col_index <= Len(columns)
    /\ col \in Range(df.header)
    /\ row < Len(df.rows)
    /\ LET val     == Cell(df, row + 1, col)
           cleaned == clean_cell(tool, options, val)
       IN  /\ cleaned # OverflowError
           /\ series' = Append(series, cleaned)
           /\ changes' = IF tool \in ChangeTools
                            /\ RecordsChange(tool, val, cleaned)
                         THEN Append(changes, ChangeRecord(val, cleaned, col))
                         ELSE changes
    /\ row' = row + 1
    /\ UNCHANGED <<tool, options, input_csv, df, columns, col_index, tool_pc,
                   tool_error, output_csv, output_log>>
    /\ UNCHANGED <<mainVars, normVars, dedupeVars, loadVars, concVars, chainVars>>

\* clean_number.py line 73, 79, 81: the function given to apply raises
\* OverflowError on a number too large for a double; nothing catches it
CleanCellRaises ==
    /\ tool_pc = "clean"
    /\ col_index <= Len(columns)
    /\ col \in Range(df.header)
    /\ row < Len(df.rows)
    /\ clean_cell(tool, options, Cell(df, row + 1, col)) = OverflowError
    /\ tool_error' = "OverflowError"
    /\ tool_pc' = "exit"
    /\ UNCHANGED <<tool, options, input_csv, df, columns, changes, col_index,
                   row, series, output_csv, output_log>>
    /\ UNCHANGED <<mainVars, normVars, dedupeVars, loadVars, concVars, chainVars>>

\* df[col] = df[col].apply(...): the results replace the column, the loop
\* goes to the next selected column
AssignColumn ==
    /\ tool_pc = "clean"
    /\ col_index <= Len(columns)
    /\ col \in Range(df.header)
    /\ row = Len(df.rows)
    /\ df' = SetColumn(df, col, series)
    /\ col_index' = col_index + 1
    /\ row' = 0
    /\ series' = <<>>
    /\ UNCHANGED <<tool, options, input_csv, columns, changes, tool_pc,
                   tool_error, output_csv, output_log>>
    /\ UNCHANGED <<mainVars, normVars, dedupeVars, loadVars, concVars, chainVars>>

\* return df, changes
Return ==
    /\ tool_pc = "clean"
    /\ col_index > Len(columns)
    /\ tool_pc' = "returned"
    /\ UNCHANGED <<tool, options, input_csv, df, columns, changes, col_index,
                   row, series, tool_error, output_csv, output_log>>
    /\ UNCHANGED <<mainVars, normVars, dedupeVars, loadVars, concVars, chainVars>>

\* cleaned_df.to_csv(output_path, index=False); clean_zip.py and
\* clean_number.py end here
WriteCsv ==
    /\ tool_pc = "returned"
    /\ output_csv' = <<to_csv(df)>>
    /\ tool_pc' = IF tool \in LoggingTools THEN "csv written" ELSE "exit"
    /\ UNCHANGED <<tool, options, input_csv, df, columns, changes, col_index,
                   row, series, tool_error, output_log>>
    /\ UNCHANGED <<mainVars, normVars, dedupeVars, loadVars, concVars, chainVars>>

\* write_log(log_path, columns, changes)
WriteLog ==
    /\ tool_pc = "csv written"
    /\ output_log' = <<write_log(tool, columns, options.mode, changes)>>
    /\ tool_pc' = "exit"
    /\ UNCHANGED <<tool, options, input_csv, df, columns, changes, col_index,
                   row, series, tool_error, output_csv>>
    /\ UNCHANGED <<mainVars, normVars, dedupeVars, loadVars, concVars, chainVars>>

NextTool ==
    \/ ColumnNotFound
    \/ CleanCell
    \/ CleanCellRaises
    \/ AssignColumn
    \/ Return
    \/ WriteCsv
    \/ WriteLog

SpecTool == InitTool /\ [][NextTool]_vars

(***************************************************************************)
(* The normalizers as functions of one cell                                *)
(***************************************************************************)
MaxApplications == 2

\* Further cells a column can hold, the edge cases of each normalizer
ExtraCells(script) ==
    CASE script = "clean_phone.py" ->
          {<<>>,
           <<" ", " ">>,
           <<"1", "2", "3", "4", "5">>,
           <<"t", "e", "l", " ", "+", "4", "4", " ", "2", "0", " ", "7", "9", "4", "6", " ", "0", "9", "5", "8", " ", "e", "x", "t">>,
           <<"1", "2", "3", "4", "5", "6", "7", "8", "9", "0", "1", "2", "3", "4", "5", "6", "7", "8", "9", "0", "1", "2", "3", "4", "5", "6", "7", "8">>,
           <<"a", "1", "-", "8", "0", "0", "-", "5", "5", "5", "-", "0", "1", "0", "0", "b">>,
           <<"5", "5", "5", " ", "1", "2", "3", "4">>,
           <<"+", "1", " ", "(", "0", ")", " ", "2">>,
           <<"5", "5", "5", "1", "2", "3", "4", "5", "6", "7", " ", "o", "r", " ", "5", "5", "5", "9", "8", "7", "6", "5", "4", "3">>,
           <<"+">>,
           <<"1", " ", "2", " ", "3", " ", "4", " ", "5", " ", "6", " ", "7", " ", "8">>}
      [] script = "clean_email.py" ->
          {<<>>,
           <<" ", " ">>,
           <<"m", "a", "i", "l", "t", "o", ":", "J", "o", "e", "@", "E", "x", ".", "o", "r", "g">>,
           <<"a", "@", "b">>,
           <<"a", " ", "b", "@", "c", ".", "d", "e", ";">>,
           <<"<", ">", "x", "@", "y", ".", "z", "z">>,
           <<"X", " ", "<", "x", "@", "y", ".", "z", "z", ">", " ", "<", "q", "@", "r", ".", "s", "t", ">">>,
           <<"a", "@", "@", "b", ".", "c", "o">>,
           <<"a", "@", "b", ".", "c", "1">>,
           <<"M", "A", "I", "L", "T", "O", ":", "a", "@", "b", ".", "c", "o">>,
           <<"<", "a", "@", "b", ".", "c", "o">>,
           <<"a", "@", "b", ".", "c", "o", "\n">>}
      [] script = "clean_state.py" ->
          {<<>>,
           <<" ", " ">>,
           <<"n", "e", "w", " ", "y", "o", "r", "k">>,
           <<"N", "y">>,
           <<" ", "N", "E", "W", " ", " ", "Y", "O", "R", "K">>,
           <<"c", "a", ".">>,
           <<"n", "o", "r", "t", "h", " ", "c", "a", "r", "o", "l", "i", "n", "a">>,
           <<"w", "v">>,
           <<"D", "C">>,
           <<"n", "e", "w", " ", " ", "y", "o", "r", "k">>,
           <<"c", " ", "a">>,
           <<"P", "u", "e", "r", "t", "o", " ", "R", "i", "c", "o">>}
      [] script = "clean_zip.py" ->
          {<<>>,
           <<" ", " ">>,
           <<"a", "1", "b", "2", "c", "3", "d", "4", "e", "5", "f", "6">>,
           <<"0">>,
           <<" ", "9", " ", "0", " ", "2", " ", "1", " ", "0", " ">>,
           <<"1", "2", "3", "4", "5", "6">>,
           <<"1", "2", "3", "4">>,
           <<"1", "2", "3", "4", "5", ".", "0">>,
           <<"-">>}
      [] script = "clean_website.py" ->
          {<<>>,
           <<" ", " ">>,
           <<"f", "t", "p", ":", "/", "/", "a", ".", "b", "/", "c", ";", "d">>,
           <<"H", "T", "T", "P", ":", "/", "/", "W", "W", "W", ".", "A", ".", "B", "/", "/">>,
           <<"a", ".", "b", "/", "c", " ", "d">>,
           <<"x">>,
           <<"/", "/", "a", ".", "b">>,
           <<"a", ".", "b", "#", "f">>,
           <<"a", ".", "b", "/", "c", ";", "d", "/", "e">>,
           <<"a", ".", "b", "/", "c", "/", "e", ";", "d">>,
           <<"h", "t", "t", "p", ":", "/", "/", "[", ":", ":", "1", "/", "x">>,
           <<"a", ":", "b">>,
           <<"w", "w", "w", ".", "a", ".", "b", "/">>,
           <<"a", ".", "b", "/", "?", "x">>,
           <<"m", "a", "i", "l", "t", "o", ":", "x", "@", "y", ".", "z">>,
           <<"x", ":", "/", "/", "a", ".", "b", "/", "c", ";", "d">>,
           <<"a", ".", "b", "/", "c", ";", "x", "/">>,
           <<"A", ".", "B", "/", "C">>}
      [] script = "clean_facebook.py" ->
          {<<>>,
           <<" ", " ">>,
           <<"F", "B", ".", "c", "o", "m", "/", "A", "c", "m", "e", "/">>,
           <<"f", "a", "c", "e", "b", "o", "o", "k", ".", "c", "o", "m">>,
           <<"f", "a", "c", "e", "b", "o", "o", "k", ".", "c", "o", "m", "/", "h", "o", "m", "e">>,
           <<"f", "a", "c", "e", "b", "o", "o", "k", ".", "c", "o", "m", "/", "p", "a", "g", "e", "s">>,
           <<"f", "a", "c", "e", "b", "o", "o", "k", ".", "c", "o", "m", "/", "p", "a", "g", "e", "s", "/", "x", "/", "1">>,
           <<"f", "a", "c", "e", "b", "o", "o", "k", ".", "c", "o", "m", "/", "m", "a", "r", "k", "e", "t", "p", "l", "a", "c", "e", "/">>,
           <<"f", "a", "c", "e", "b", "o", "o", "k", ".", "c", "o", "m", "/", "p", "r", "o", "f", "i", "l", "e", ".", "p", "h", "p", "?", "i", "d", "=", "5">>,
           <<"m", ".", "f", "a", "c", "e", "b", "o", "o", "k", ".", "c", "o", "m", "/", "a", "c", "m", "e">>,
           <<"f", "a", "c", "e", "b", "o", "o", "k", ".", "c", "o", "m", "/", "a", "/", "b">>,
           <<"f", "a", "c", "e", "b", "o", "o", "k", ".", "c", "o", "m", "/", "/", "a", "c", "m", "e", "/", "/">>,
           <<"f", "a", "c", "e", "b", "o", "o", "k", ".", "c", "o", "m", "/", "g", "r", "o", "u", "p", "s">>,
           <<"f", "a", "c", "e", "b", "o", "o", "k", ".", "c", "o", "m", "/", "p", "e", "o", "p", "l", "e", "/", "x", "/", "y">>,
           <<"f", "a", "c", "e", "b", "o", "o", "k", ".", "c", "o", "m", "/", "w", "a", "t", "c", "h">>,
           <<"h", "t", "t", "p", "s", ":", "/", "/", "w", "w", "w", ".", "f", "b", ".", "c", "o", "m", "/", "x", ".", "y">>,
           <<"f", "a", "c", "e", "b", "o", "o", "k", ".", "c", "o", "m", "/", "a", "c", "m", "e", ";", "x", "/">>,
           <<"f", "a", "c", "e", "b", "o", "o", "k", ".", "c", "o", "m", "/", "A", "c", "m", "e", "/", "P", "h", "o", "t", "o", "s", "/", "1">>,
           <<"f", "a", "c", "e", "b", "o", "o", "k", ".", "c", "o", "m", "/", "s", "t", "o", "r", "y", ".", "p", "h", "p">>,
           <<"f", "a", "c", "e", "b", "o", "o", "k", ".", "c", "o", "m", "/", "e", "v", "e", "n", "t", "s", "/">>,
           <<"f", "a", "c", "e", "b", "o", "o", "k", ".", "c", "o", "m", "/", "x", "/", "v", "i", "d", "e", "o", "s">>,
           <<"f", "a", "c", "e", "b", "o", "o", "k", ".", "c", "o", "m", "/", "r", "e", "e", "l", "/", "9">>,
           <<"f", "a", "c", "e", "b", "o", "o", "k", ".", "c", "o", "m", "/", "p", "e", "r", "m", "a", "l", "i", "n", "k", "/", "3">>,
           <<"f", "a", "c", "e", "b", "o", "o", "k", ".", "c", "o", "m", "/", "s", "h", "a", "r", "e", "/", "a">>,
           <<"f", "a", "c", "e", "b", "o", "o", "k", ".", "c", "o", "m", "/", "p", "h", "o", "t", "o", "/", "1">>,
           <<"f", "a", "c", "e", "b", "o", "o", "k", ".", "c", "o", "m", "/", "B", "o", "b", ".", "S", "m", "i", "t", "h">>,
           <<"n", "o", "t", "f", "a", "c", "e", "b", "o", "o", "k", ".", "c", "o", "m", "/", "a", "c", "m", "e">>,
           <<"f", "a", "c", "e", "b", "o", "o", "k", ".", "c", "o", "m", "/", "p", "h", "o", "t", "o", "s", "_", "o", "f">>,
           <<"f", "a", "c", "e", "b", "o", "o", "k", ".", "c", "o", "m", "/", "s", "t", "o", "r", "y", ".", "p", "h", "p", "x">>,
           <<"f", "a", "c", "e", "b", "o", "o", "k", ".", "c", "o", "m", "/", "H", "o", "m", "e">>,
           <<"f", "a", "c", "e", "b", "o", "o", "k", ".", "c", "o", "m", "/", "a", "c", "m", "e", ";", "x">>,
           <<"h", "t", "t", "p", ":", "/", "/", "f", "a", "c", "e", "b", "o", "o", "k", ".", "c", "o", "m", "/", "a", "c", "m", "e", "/">>}
      [] script = "clean_linkedin.py" ->
          {<<>>,
           <<" ", " ">>,
           <<"L", "i", "n", "k", "e", "d", "I", "n", ".", "c", "o", "m", "/", "c", "o", "m", "p", "a", "n", "y", "/", "a", "c", "m", "e">>,
           <<"l", "i", "n", "k", "e", "d", "i", "n", ".", "c", "o", "m", "/", "i", "n">>,
           <<"l", "i", "n", "k", "e", "d", "i", "n", ".", "c", "o", "m">>,
           <<"u", "k", ".", "l", "i", "n", "k", "e", "d", "i", "n", ".", "c", "o", "m", "/", "i", "n", "/", "x", "/", "/">>,
           <<"l", "i", "n", "k", "e", "d", "i", "n", ".", "c", "o", "m", "/", "g", "r", "o", "u", "p", "s", "/", "1", "2", "/">>,
           <<"l", "i", "n", "k", "e", "d", "i", "n", ".", "c", "o", "m", ".", "e", "v", "i", "l", ".", "i", "o", "/", "i", "n", "/", "x">>,
           <<"h", "t", "t", "p", ":", "/", "/", "l", "i", "n", "k", "e", "d", "i", "n", ".", "c", "o", "m", "/", "x", "/", "i", "n", "/", "y">>,
           <<"f", "a", "c", "e", "b", "o", "o", "k", ".", "c", "o", "m", "/", "i", "n", "/", "x">>,
           <<"i", "n", "s", "t", "a", "g", "r", "a", "m", ".", "c", "o", "m", "/", "b", "o", "b">>}
      [] script = "clean_instagram.py" ->
          {<<>>,
           <<" ", " ">>,
           <<"b", "o", "b">>,
           <<"@", "b", "o", "b", ".", "b", "_", "9">>,
           <<"@">>,
           <<"a", "a", "a", "a", "a", "a", "a", "a", "a", "a", "a", "a", "a", "a", "a", "a", "a", "a", "a", "a", "a", "a", "a", "a", "a", "a", "a", "a", "a", "a", "a">>,
           <<"i", "n", "s", "t", "a", "g", "r", "a", "m", ".", "c", "o", "m", "/", "@", "b", "o", "b">>,
           <<"i", "n", "s", "t", "a", "g", "r", "a", "m", ".", "c", "o", "m", "/", "b", "o", "b", "/", "x">>,
           <<"I", "n", "s", "t", "a", "g", "r", "a", "m", ".", "c", "o", "m", "/", "B", "o", "b">>,
           <<"i", "n", "s", "t", "a", "g", "r", "a", "m", ".", "c", "o", "m", "/", "r", "e", "e", "l", "s">>,
           <<"i", "g", ".", "c", "o", "m", "/", "b", "o", "b">>,
           <<"i", "n", "s", "t", "a", "g", "r", "a", "m", ".", "c", "o", "m">>,
           <<"b", "o", "b", " ", "s", "m", "i", "t", "h">>,
           <<"i", "n", "s", "t", "a", "g", "r", "a", "m", ".", "c", "o", "m", "/", "b", "o", "-", "b">>,
           <<"i", "n", "s", "t", "a", "g", "r", "a", "m", ".", "c", "o", "m", "/", "s">>,
           <<"@", "@", "b", "o", "b">>,
           <<"f", "a", "c", "e", "b", "o", "o", "k", ".", "c", "o", "m">>,
           <<"l", "i", "n", "k", "e", "d", "i", "n", ".", "c", "o", "m", "/", "i", "n", "/", "x">>,
           <<"n", "o", "t", "i", "n", "s", "t", "a", "g", "r", "a", "m", ".", "c", "o", "m", "/", "b", "o", "b">>}
      [] script = "clean_alphanum.py" ->
          {<<>>,
           <<" ", " ">>,
           <<"a", "-", "b", " ", "c">>,
           <<"x", "_", "y", ".", "z">>,
           <<"a", "#", "b">>}
      [] script = "clean_number.py" ->
          {<<>>,
           <<" ", " ">>,
           <<".">>,
           <<"5", ".">>,
           <<".", "5">>,
           <<"0", "0", "7">>,
           <<"$", "3", ".", "9", "9", "9">>,
           <<"0", ".", "0", "7">>,
           <<"1", ",", "2", "3", "4", ".", "5", "0">>,
           <<"0", ".", "2", "9">>,
           <<"9", "9", ".", "9", "9">>,
           <<"1", ".", "0", "0", "5">>,
           <<"0">>,
           <<"9", "0", "0", "7", "1", "9", "9", "2", "5", "4", "7", "4", "0", "9", "9", "3">>,
           <<"1", ".", "1", "1">>,
           <<"1", ".", "1", "2">>,
           <<"0", ".", "2", "8">>,
           <<"4", ".", "3", "5">>,
           <<"1">> \o Zeros(309)}

\* the 50 states in the spellings a column holds them in
StateCells ==
    UNION {{NameOf(a), lower(NameOf(a)), <<" ">> \o title(NameOf(a)) \o <<" ", " ">>,
            a, <<" ">> \o lower(a), title(a) \o <<"\t">>} : a \in StateAbbrs}

NormalizerInputs(script) ==
    Range(SampleCells(script)) \cup ExtraCells(script)
    \cup (IF script = "clean_state.py" THEN StateCells ELSE {})

\* the command lines of OptionsOf and further ones of the same tools
NormalizerOptions(script) ==
    OptionsOf(script)
    \cup CASE script = "clean_number.py" ->
              {[DefaultOptions EXCEPT !.mode = "decimal", !.places = 2,
                                      !.round_mode = "up"],
               [DefaultOptions EXCEPT !.mode = "decimal", !.places = 0,
                                      !.round_mode = "up"],
               [DefaultOptions EXCEPT !.mode = "decimal", !.places = 1,
                                      !.round_mode = "down"]}
         [] script = "clean_alphanum.py" ->
              {[DefaultOptions EXCEPT !.replacement = <<"_", "_">>]}
         [] OTHER -> {}

InitNorm ==
    /\ MainIdle
    /\ \E script \in CellTools :
         \E opts \in NormalizerOptions(script), val \in NormalizerInputs(script) :
            /\ tool = script
            /\ options = opts
            /\ cell = val
    /\ results = <<>>
    /\ input_csv = <<>>
    /\ df = <<>>
    /\ columns = <<>>
    /\ changes = <<>>
    /\ col_index = 0
    /\ row = 0
    /\ series = <<>>
    /\ tool_pc = "apply"
    /\ tool_error = ""
    /\ output_csv = <<>>
    /\ output_log = <<>>
    /\ DedupeIdle
    /\ LoadIdle
    /\ ConcIdle
    /\ ChainIdle

\* the function is called: on the cell, then on what it returned
Apply ==
    /\ tool_pc = "apply"
    /\ Len(results) < MaxApplications
    /\ LET val == IF results = <<>> THEN cell ELSE results[Len(results)]
       IN  /\ val # OverflowError
           /\ results' = Append(results, clean_cell(tool, options, val))
    /\ UNCHANGED <<cell, mainVars, toolVars, dedupeVars, loadVars, concVars, chainVars>>

NextNorm == Apply

SpecNorm == InitNorm /\ [][NextNorm]_vars

(***************************************************************************)
(* clean_duplicate.py                                                      *)
(***************************************************************************)
MaxDedupeRows == 3

\* the rows of a table with repeated and missing keys
DuplicateRows ==
    {<<first, second, <<"n">>>> :
        first \in {<<"A">>, <<"B">>, NaN}, second \in {<<"x">>, <<"y">>}}

DuplicateTables ==
    {[header |-> TableHeader, rows |-> rows] :
        rows \in SeqsUpTo(DuplicateRows, MaxDedupeRows)}

\* the values of row r in the columns of subset
KeyOf(t, r, subset) == [i \in 1..Len(subset) |-> Cell(t, r, subset[i])]

\* (mutant) keep="last": a row is a duplicate when a later row has its key
duplicated_keep_last(t, subset) ==
    [r \in 1..Len(t.rows) |->
        \E q \in (r + 1)..Len(t.rows) : KeyOf(t, q, subset) = KeyOf(t, r, subset)]

\* df.duplicated(subset=cols, keep="first"): a row is a duplicate when an
\* earlier row has its key; missing values are equal to one another
duplicated(t, subset) ==
    [r \in 1..Len(t.rows) |->
        \E q \in 1..(r - 1) : KeyOf(t, q, subset) = KeyOf(t, r, subset)]

\* df[mask]: the rows whose mask is true, in their order
RowsWhere(t, mask) ==
    LET index == SelectSeq([r \in 1..Len(t.rows) |-> r], LAMBDA r : mask[r])
    IN  [t EXCEPT !.rows = [k \in 1..Len(index) |-> t.rows[index[k]]]]

\* (mutant) keep=False: every row whose key occurs twice is dropped
drop_duplicates_keep_none(t, subset) ==
    RowsWhere(t, [r \in 1..Len(t.rows) |->
        \A q \in (1..Len(t.rows)) \ {r} :
            KeyOf(t, q, subset) # KeyOf(t, r, subset)])

\* df.drop_duplicates(subset=cols, keep="first")
drop_duplicates(t, subset) ==
    RowsWhere(t, [r \in 1..Len(t.rows) |-> ~duplicated(t, subset)[r]])

\* the log of clean_duplicate.py
dedupe_write_log(b, a, n, removed) ==
    <<LogLine("title", "CLEAN DUPLICATE LOG", <<>>, <<>>, 0),
      LogLine("count", "Rows before", <<>>, <<>>, b),
      LogLine("count", "Rows after", <<>>, <<>>, a),
      LogLine("count", "Rows removed", <<>>, <<>>, n),
      LogLine("heading", "Removed rows:", <<>>, <<>>, 0)>>
    \o (IF n = 0
        THEN <<LogLine("no changes", "No duplicates removed.", <<>>, <<>>, 0)>>
        ELSE [k \in 1..Len(removed.rows) |->
                LogLine("removed", "", removed.rows[k], <<>>, 0)])

\* the table is loaded and the key columns are parsed: never none of them
InitDedupe ==
    /\ MainIdle
    /\ NormIdle
    /\ DedupeIdle
    /\ LoadIdle
    /\ ConcIdle
    /\ ChainIdle
    /\ tool = "clean_duplicate.py"
    /\ options = DefaultOptions
    /\ \E t \in DuplicateTables, selection \in Selections :
            /\ input_csv = t
            /\ df = t
            /\ columns = selection
    /\ changes = <<>>
    /\ col_index = 0
    /\ row = 0
    /\ series = <<>>
    /\ tool_pc = "dedupe"
    /\ tool_error = ""
    /\ output_csv = <<>>
    /\ output_log = <<>>

\* drop_duplicates raises KeyError for a name of subset that is no column
DedupeColumnNotFound ==
    /\ tool_pc = "dedupe"
    /\ ~(Range(columns) \subseteq Range(df.header))
    /\ tool_error' = "KeyError"
    /\ tool_pc' = "exit"
    /\ UNCHANGED <<tool, options, input_csv, df, columns, changes, col_index,
                   row, series, output_csv, output_log>>
    /\ UNCHANGED <<mainVars, normVars, dedupeVars, loadVars, concVars, chainVars>>

dedupe_dataframe ==
    /\ tool_pc = "dedupe"
    /\ Range(columns) \subseteq Range(df.header)
    /\ before' = Len(df.rows)
    /\ deduped' = drop_duplicates(df, columns)
    /\ after' = Len(deduped'.rows)
    /\ removed_count' = before' - after'
    /\ removed_rows' = RowsWhere(df, duplicated(df, columns))
    /\ tool_pc' = "returned"
    /\ UNCHANGED <<tool, options, input_csv, df, columns, changes, col_index,
                   row, series, tool_error, output_csv, output_log>>
    /\ UNCHANGED <<mainVars, normVars, loadVars, concVars, chainVars>>

\* deduped.to_csv(output_path, index=False)
DedupeWriteCsv ==
    /\ tool_pc = "returned"
    /\ output_csv' = <<to_csv(deduped)>>
    /\ tool_pc' = "csv written"
    /\ UNCHANGED <<tool, options, input_csv, df, columns, changes, col_index,
                   row, series, tool_error, output_log>>
    /\ UNCHANGED <<mainVars, normVars, dedupeVars, loadVars, concVars, chainVars>>

\* write_log(log_path, before, after, removed_count, removed_rows)
DedupeWriteLog ==
    /\ tool_pc = "csv written"
    /\ output_log' = <<dedupe_write_log(before, after, removed_count, removed_rows)>>
    /\ tool_pc' = "exit"
    /\ UNCHANGED <<tool, options, input_csv, df, columns, changes, col_index,
                   row, series, tool_error, output_csv>>
    /\ UNCHANGED <<mainVars, normVars, dedupeVars, loadVars, concVars, chainVars>>

NextDedupe ==
    \/ DedupeColumnNotFound
    \/ dedupe_dataframe
    \/ DedupeWriteCsv
    \/ DedupeWriteLog

SpecDedupe == InitDedupe /\ [][NextDedupe]_vars

(***************************************************************************)
(* Column detection: main of a detecting tool from the loaded table to the *)
(* call of clean_dataframe, when the command line names no column.  The    *)
(* run then goes on as in SpecTool.                                        *)
(***************************************************************************)
MaxColumns == 2

\* PHONE_KEYWORDS, STATE_KEYWORDS and the literals of the other detectors
KEYWORDS(script) ==
    CASE script = "clean_phone.py" ->
            {<<"p", "h", "o", "n", "e">>,
             <<"p", "h", "o", "n", "e", " ", "n", "u", "m", "b", "e", "r">>,
             <<"c", "e", "l", "l">>,
             <<"c", "e", "l", "l", "p", "h", "o", "n", "e">>,
             <<"c", "e", "l", "l", " ", "p", "h", "o", "n", "e">>,
             <<"m", "o", "b", "i", "l", "e">>,
             <<"m", "o", "b", "i", "l", "e", " ", "p", "h", "o", "n", "e">>,
             <<"w", "o", "r", "k", " ", "p", "h", "o", "n", "e">>,
             <<"h", "o", "m", "e", " ", "p", "h", "o", "n", "e">>,
             <<"b", "u", "s", "i", "n", "e", "s", "s", " ", "p", "h", "o", "n", "e">>}
      [] script = "clean_state.py" ->
            {<<"s", "t", "a", "t", "e">>,
             <<"p", "r", "o", "v", "i", "n", "c", "e">>,
             <<"s", "t", "a", "t", "e", "/", "p", "r", "o", "v", "i", "n", "c", "e">>,
             <<"r", "e", "g", "i", "o", "n">>}
      [] script = "clean_email.py" -> {<<"e", "m", "a", "i", "l">>}
      [] script = "clean_website.py" -> {<<"w", "e", "b", "s", "i", "t", "e">>,
<<"u", "r", "l">>}
      [] script = "clean_facebook.py" -> {<<"f", "a", "c", "e", "b", "o", "o", "k">>,
<<"f", "b">>,
<<"m", "e", "t", "a">>}
      [] script = "clean_linkedin.py" -> {<<"l", "i", "n", "k", "e", "d", "i", "n">>,
<<"l", "n", "k", "d">>}
      [] script = "clean_instagram.py" -> {<<"i", "n", "s", "t", "a", "g", "r", "a", "m">>,
<<"i", "n", "s", "t", "a">>}

\* kw in c.lower() for a keyword of the tool; clean_instagram.py also takes
\* c.lower().startswith("ig")
IsDetected(script, c) ==
    \/ \E kw \in KEYWORDS(script) : contains(lower(c), kw)
    \/ script = "clean_instagram.py" /\ startswith(lower(c), <<"i", "g">>)

\* detect_<tool>_columns(df)
detect_columns(script, header) ==
    SelectSeq(header, LAMBDA c : IsDetected(script, c))

\* the column names of a table
HeaderNames ==
    {<<"P", "h", "o", "n", "e">>,
     <<"C", "e", "l", "l">>,
     <<"E", "m", "a", "i", "l">>,
     <<"S", "t", "a", "t", "e">>,
     <<"S", "t">>,
     <<"W", "e", "b", "s", "i", "t", "e">>,
     <<"S", "i", "t", "e", " ", "U", "R", "L">>,
     <<"F", "B">>,
     <<"M", "e", "t", "a">>,
     <<"L", "i", "n", "k", "e", "d", "I", "n">>,
     <<"I", "n", "s", "t", "a", "g", "r", "a", "m">>,
     <<"I", "G">>,
     <<"B", "u", "s", "i", "n", "e", "s", "s", "_", "I", "G">>,
     <<"i", "n", "s", "t", "a">>,
     <<"N", "a", "m", "e">>,
     <<"R", "e", "g", "i", "o", "n">>}

\* df.columns: read_csv leaves no two columns with one name
Headers ==
    {h \in SeqsUpTo(HeaderNames, MaxColumns) :
        \A i, j \in 1..Len(h) : i # j => h[i] # h[j]}

\* the table is loaded, the command line named no column
InitDetect ==
    /\ MainIdle
    /\ NormIdle
    /\ DedupeIdle
    /\ LoadIdle
    /\ ConcIdle
    /\ ChainIdle
    /\ tool \in AutoDetectTools
    /\ options = DefaultOptions
    /\ \E h \in Headers : df = [header |-> h, rows |-> <<>>]
    /\ input_csv = df
    /\ columns = <<>>
    /\ changes = <<>>
    /\ col_index = 0
    /\ row = 0
    /\ series = <<>>
    /\ tool_pc = "detect"
    /\ tool_error = ""
    /\ output_csv = <<>>
    /\ output_log = <<>>

\* columns = detect_<tool>_columns(df), and some column was found
Detect ==
    /\ tool_pc = "detect"
    /\ columns = <<>>
    /\ detect_columns(tool, df.header) # <<>>
    /\ columns' = detect_columns(tool, df.header)
    /\ col_index' = 1
    /\ tool_pc' = "clean"
    /\ UNCHANGED <<tool, options, input_csv, df, changes, row, series,
                   tool_error, output_csv, output_log>>
    /\ UNCHANGED <<mainVars, normVars, dedupeVars, loadVars, concVars, chainVars>>

\* if not columns: raise ValueError("No ... columns found and none provided.")
NoColumnsFound ==
    /\ tool_pc = "detect"
    /\ columns = <<>>
    /\ detect_columns(tool, df.header) = <<>>
    /\ tool_error' = "ValueError"
    /\ tool_pc' = "exit"
    /\ UNCHANGED <<tool, options, input_csv, df, columns, changes, col_index,
                   row, series, output_csv, output_log>>
    /\ UNCHANGED <<mainVars, normVars, dedupeVars, loadVars, concVars, chainVars>>

NextDetect ==
    \/ Detect
    \/ NoColumnsFound

SpecDetect == InitDetect /\ [][NextDetect]_vars

(***************************************************************************)
(* read_csv_with_fallback                                                  *)
(***************************************************************************)
AllTools == CellTools \cup {"clean_duplicate.py"}

\* the list each tool tries: six tools have latin1 before cp1252
encodings(script) ==
    IF script \in {"clean_email.py", "clean_alphanum.py", "clean_state.py",
                   "clean_facebook.py", "clean_linkedin.py", "clean_instagram.py"}
    THEN <<"utf-8", "utf-8-sig", "latin1", "cp1252">>
    ELSE <<"utf-8", "utf-8-sig", "cp1252", "latin1">>

\* Input files by their bytes: plain ASCII; UTF-8 text; UTF-8 text with the
\* byte 0x81 in a character; cp1252 text with a byte above 0x7F; a lone byte
\* 0x81; and a file no encoding makes a table of (empty, or ragged rows).
CsvFiles == {"ascii", "utf-8", "utf-8 with 0x81", "cp1252", "0x81", "malformed"}

\* pd.read_csv(path, encoding=enc) raises nothing: the bytes decode and the
\* text parses.  latin1 decodes every byte, cp1252 has no character for
\* 0x81, UTF-8 takes no lone byte above 0x7F.
read_csv_succeeds(f, enc) ==
    /\ f # "malformed"
    /\ enc \in {"utf-8", "utf-8-sig"} => f \in {"ascii", "utf-8", "utf-8 with 0x81"}
    /\ enc = "cp1252" => f \in {"ascii", "utf-8", "cp1252"}

InitLoad ==
    /\ MainIdle
    /\ NormIdle
    /\ DedupeIdle
    /\ ConcIdle
    /\ ChainIdle
    /\ tool \in AllTools
    /\ file \in CsvFiles
    /\ attempts = <<>>
    /\ loaded = <<>>
    /\ reported = <<>>
    /\ options = DefaultOptions
    /\ input_csv = <<>>
    /\ df = <<>>
    /\ columns = <<>>
    /\ changes = <<>>
    /\ col_index = 0
    /\ row = 0
    /\ series = <<>>
    /\ tool_pc = "load"
    /\ tool_error = ""
    /\ output_csv = <<>>
    /\ output_log = <<>>

\* the encoding the for loop is at
enc == encodings(tool)[Len(attempts) + 1]

\* (mutant) the table is kept and the loop goes on to the next encoding
ReadCsvNoReturn ==
    /\ tool_pc = "load"
    /\ Len(attempts) < Len(encodings(tool))
    /\ read_csv_succeeds(file, enc)
    /\ attempts' = Append(attempts, enc)
    /\ loaded' = <<[encoding |-> enc, file |-> file]>>
    /\ reported' = Append(reported, enc)
    /\ UNCHANGED <<file, toolVars, mainVars, normVars, dedupeVars, concVars, chainVars>>

\* df = pd.read_csv(path, encoding=enc); print(...); return df
ReadCsv ==
    /\ tool_pc = "load"
    /\ Len(attempts) < Len(encodings(tool))
    /\ read_csv_succeeds(file, enc)
    /\ attempts' = Append(attempts, enc)
    /\ loaded' = <<[encoding |-> enc, file |-> file]>>
    /\ reported' = Append(reported, enc)
    /\ tool_pc' = "loaded"
    /\ UNCHANGED <<file, tool, options, input_csv, df, columns, changes,
                   col_index, row, series, tool_error, output_csv, output_log>>
    /\ UNCHANGED <<mainVars, normVars, dedupeVars, concVars, chainVars>>

\* except Exception: continue
ReadCsvFails ==
    /\ tool_pc = "load"
    /\ Len(attempts) < Len(encodings(tool))
    /\ ~read_csv_succeeds(file, enc)
    /\ attempts' = Append(attempts, enc)
    /\ UNCHANGED <<file, loaded, reported, toolVars, mainVars, normVars,
                   dedupeVars, concVars, chainVars>>

\* raise RuntimeError("Could not decode CSV ...") after the loop
CouldNotDecode ==
    /\ tool_pc = "load"
    /\ Len(attempts) = Len(encodings(tool))
    /\ tool_error' = "RuntimeError"
    /\ tool_pc' = "exit"
    /\ UNCHANGED <<tool, options, input_csv, df, columns, changes, col_index,
                   row, series, output_csv, output_log>>
    /\ UNCHANGED <<mainVars, normVars, dedupeVars, loadVars, concVars, chainVars>>

NextLoad ==
    \/ ReadCsv
    \/ ReadCsvFails
    \/ CouldNotDecode

SpecLoad == InitLoad /\ [][NextLoad]_vars

(***************************************************************************)
(* Two invocations of one tool running at the same time on inputs of one    *)
(* directory (main() of clean_email.py, clean_phone.py).  Each reads its    *)
(* input, cleans it in memory, then writes the cleaned CSV and the log.     *)
(* A file is written by open(path, "w"), which creates or truncates it,     *)
(* and by the write of the buffered text at the file's start when it is     *)
(* closed: the files of the model are smaller than one buffer.  A line      *)
(* stands for its bytes.                                                    *)
(***************************************************************************)
ConcTools == {"clean_email.py", "clean_phone.py"}

Invocations == {1, 2}

\* the inputs of the directory: name -> table
ConcInputs(script) ==
    LET cells == SampleCells(script)
        table(rows) == [header |-> <<"First">>, rows |-> rows]
    IN  (<<"a", ".", "csv">> :> table(<< <<cells[4]>>, <<cells[5]>> >>))
        @@ (<<"b", ".", "csv">> :> table(<< <<cells[4]>> >>))
        @@ (<<"a", ".", "txt">> :> table(<< <<cells[3]>> >>))

\* the lines of a CSV file
csv_lines(t) == <<t.header>> \o t.rows

\* pd.read_csv of these lines
read_csv(lines) == [header |-> Head(lines), rows |-> Tail(lines)]

\* clean_dataframe(df, columns) of a tool that collects changes, on one
\* column: the cleaned table and the changes list
clean_dataframe(script, t, column) ==
    LET cleaned == [r \in 1..Len(t.rows) |->
                       clean_cell(script, DefaultOptions, Cell(t, r, column))]
        changed == SelectSeq([r \in 1..Len(t.rows) |-> r],
                       LAMBDA r : RecordsChange(script, Cell(t, r, column),
                                                cleaned[r]))
    IN  [df      |-> SetColumn(t, column, cleaned),
         changes |-> [k \in 1..Len(changed) |->
                         ChangeRecord(Cell(t, changed[k], column),
                                      cleaned[changed[k]], column)]]

\* (mutant) the log is named after the input
log_path_of_stem(script, name) == stem(name) \o <<"_", ToolLogName(script)>>

\* log_path = input_path.with_name("<tool>_log.txt")
log_path(script, name) == <<ToolLogName(script)>>

\* output_path = input_path.with_name(f"{input_path.stem}_cleaned{suffix}")
output_path(name) == CleanedName(name)

\* what a file holds after text is written at its start
WriteAtStart(old, text) == text \o Drop(old, Len(text))

InitConc ==
    /\ MainIdle
    /\ NormIdle
    /\ DedupeIdle
    /\ LoadIdle
    /\ ChainIdle
    /\ tool \in ConcTools
    /\ options = DefaultOptions
    /\ input_csv = <<>>
    /\ df = <<>>
    /\ columns = <<"First">>
    /\ changes = <<>>
    /\ col_index = 0
    /\ row = 0
    /\ series = <<>>
    /\ tool_pc = "idle"
    /\ tool_error = ""
    /\ output_csv = <<>>
    /\ output_log = <<>>
    /\ disk = [n \in DOMAIN ConcInputs(tool) |-> csv_lines(ConcInputs(tool)[n])]
    /\ invocations \in [Invocations ->
           {[input |-> n, at |-> "start", df |-> <<>>, changes |-> <<>>] :
               n \in DOMAIN ConcInputs(tool)}]
    /\ closes = <<>>

Moves(i, from, to) ==
    /\ invocations[i].at = from
    /\ invocations' = [invocations EXCEPT ![i].at = to]

\* df = read_csv_with_fallback(input_path);
\* cleaned_df, changes = clean_dataframe(df, columns)
ReadAndClean(i) ==
    /\ invocations[i].at = "start"
    /\ LET r == clean_dataframe(tool, read_csv(disk[invocations[i].input]),
                                columns[1])
       IN  invocations' = [invocations EXCEPT ![i].at = "cleaned",
                                              ![i].df = r.df,
                                              ![i].changes = r.changes]
    /\ UNCHANGED <<disk, closes>>

\* to_csv: open(output_path, "w")
OpenCsv(i) ==
    /\ Moves(i, "cleaned", "csv open")
    /\ disk' = (output_path(invocations[i].input) :> <<>>) @@ disk
    /\ UNCHANGED closes

\* to_csv: the text is written and the file closed
CloseCsv(i) ==
    /\ Moves(i, "csv open", "csv written")
    /\ LET path == output_path(invocations[i].input)
       IN  /\ disk' = [disk EXCEPT ![path] =
                          WriteAtStart(@, csv_lines(to_csv(invocations[i].df)))]
           /\ closes' = Append(closes, [by |-> i, path |-> path])

\* write_log: with open(log_path, "w", encoding="utf-8") as f
OpenLog(i) ==
    /\ Moves(i, "csv written", "log open")
    /\ disk' = (log_path(tool, invocations[i].input) :> <<>>) @@ disk
    /\ UNCHANGED closes

\* the report an invocation writes
report(i) == write_log(tool, columns, options.mode, invocations[i].changes)

\* write_log: the f.write texts are written when the with block closes f
CloseLog(i) ==
    /\ Moves(i, "log open", "exit")
    /\ LET path == log_path(tool, invocations[i].input)
       IN  /\ disk' = [disk EXCEPT ![path] = WriteAtStart(@, report(i))]
           /\ closes' = Append(closes, [by |-> i, path |-> path])

NextConc ==
    \E i \in Invocations :
        /\ \/ ReadAndClean(i)
           \/ OpenCsv(i)
           \/ CloseCsv(i)
           \/ OpenLog(i)
           \/ CloseLog(i)
        /\ UNCHANGED <<mainVars, toolVars, normVars, dedupeVars, loadVars,
                       chainVars>>

SpecConc == InitConc /\ [][NextConc]_vars

(***************************************************************************)
(* One tool after another on one file, as clean_main.py runs them: each     *)
(* tool loads the file with pd.read_csv(path, encoding=enc), which infers   *)
(* the type of every column, cleans its column and writes the table with    *)
(* to_csv.  A cell of the loaded table is held as the text str() gives it.  *)
(* The cells of the files are integer literals, text that is no number,     *)
(* or empty.                                                                *)
(***************************************************************************)
MaxSteps == 2

\* the fields read_csv takes for a missing value (of its default na_values)
NaValues ==
    {<<>>, <<"n", "/", "a">>, <<"N", "/", "A">>, <<"N", "A">>,
     <<"N", "a", "N">>, <<"n", "a", "n">>, <<"n", "u", "l", "l">>,
     <<"N", "U", "L", "L">>, <<"N", "o", "n", "e">>}

\* a field the parser reads as an integer: digits after an optional sign
IsIntegerField(f) ==
    LET digits == IF f # <<>> /\ f[1] \in {"+", "-"} THEN Tail(f) ELSE f
    IN  digits # <<>> /\ \A i \in 1..Len(digits) : IsDigit(digits[i])

\* str() of the integer a field is read as
IntegerText(f) ==
    LET digits == IF f[1] \in {"+", "-"} THEN Tail(f) ELSE f
        zeros  == CHOOSE n \in 0..(Len(digits) - 1) :
                     /\ \A i \in 1..n : digits[i] = "0"
                     /\ n = Len(digits) - 1 \/ digits[n + 1] # "0"
        number == Drop(digits, zeros)
    IN  IF f[1] = "-" /\ number # <<"0">> THEN <<"-">> \o number ELSE number

\* a column as read_csv loads it: int64 when every field is an integer,
\* float64 when the others are missing, and else the text, with NaN for a
\* missing field
infer_column(fields) ==
    LET present == {i \in 1..Len(fields) : fields[i] \notin NaValues}
    IN  IF \A i \in present : IsIntegerField(fields[i])
        THEN [i \in 1..Len(fields) |->
                 IF i \notin present THEN NaN
                 ELSE IF present = 1..Len(fields) THEN IntegerText(fields[i])
                 ELSE IntegerText(fields[i]) \o <<".", "0">>]
        ELSE [i \in 1..Len(fields) |->
                 IF i \in present THEN fields[i] ELSE NaN]

\* (mutant) every column is loaded as text: read_csv(path, dtype=str,
\* keep_default_na=False)
read_csv_as_text(csv) == csv

\* pd.read_csv(path, encoding=enc) of a file
read_csv_inferred(csv) ==
    LET column(c) == infer_column([r \in 1..Len(csv.rows) |-> csv.rows[r][c]])
    IN  [csv EXCEPT !.rows = [r \in 1..Len(csv.rows) |->
            [c \in 1..Len(csv.header) |-> column(c)[r]]]]

ChainHeader == <<"Zip", "Phone", "Email", "Notes">>

ChainRows ==
    { << <<"0", "2", "1", "3", "4", "-", "1", "2", "3", "4">>,
         <<"(", "2", "1", "2", ")", " ", "5", "5", "5", "-", "0", "1", "9", "9">>,
         <<"B", "o", "b", " ", "<", "B", "@", "X", ".", "i", "o", ">">>,
         <<"0", "0", "7">> >>,
      << <<"1", "0", "0", "0", "1">>,
         <<"+", "1", "2", "1", "2", "5", "5", "5", "0", "1", "9", "9">>,
         <<"a", "@", "b", ".", "c", "o">>,
         <<"n", "1">> >>,
      << <<"z", "i", "p", " ", "0", "6", "5", "1", "1">>,
         <<"n", "o", "n", "e">>,
         <<"n", "o", "p", "e">>,
         <<"n", "/", "a">> >> }

\* the input files
ChainFiles ==
    {[header |-> ChainHeader, rows |-> rows] :
        rows \in SeqsUpTo(ChainRows, MaxRows) \ {<<>>}}

\* the steps of the pipeline that are followed, with their column argument
ChainSteps ==
    << [script |-> "clean_phone.py", column |-> "Phone"],
       [script |-> "clean_zip.py", column |-> "Zip"],
       [script |-> "clean_email.py", column |-> "Email"] >>

InitChain ==
    /\ MainIdle
    /\ NormIdle
    /\ DedupeIdle
    /\ LoadIdle
    /\ ConcIdle
    /\ \E csv \in ChainFiles, first \in 1..(Len(ChainSteps) - 1) :
          /\ chain = <<[csv |-> csv, step |-> 0]>>
          /\ tool = ChainSteps[first].script
          /\ columns = <<ChainSteps[first].column>>
          /\ input_csv = csv
    /\ options = DefaultOptions
    /\ df = <<>>
    /\ changes = <<>>
    /\ col_index = 0
    /\ row = 0
    /\ series = <<>>
    /\ tool_pc = "load"
    /\ tool_error = ""
    /\ output_csv = <<>>
    /\ output_log = <<>>

\* df = read_csv_with_fallback(input_path), and clean_dataframe is entered
LoadCsv ==
    /\ tool_pc = "load"
    /\ df' = read_csv_inferred(input_csv)
    /\ col_index' = 1
    /\ tool_pc' = "clean"
    /\ UNCHANGED <<tool, options, input_csv, columns, changes, row, series,
                   tool_error, output_csv, output_log>>
    /\ UNCHANGED <<mainVars, normVars, dedupeVars, loadVars, concVars,
                   chainVars>>

\* clean_main.py lines 128-141: the tool has written next_file, which is
\* the input of the next step that runs
StartNextStep ==
    /\ tool_pc = "exit"
    /\ tool_error = ""
    /\ Len(chain) < MaxSteps
    /\ \E done \in 1..Len(ChainSteps) :
          /\ ChainSteps[done].script = tool
          /\ chain' = Append(chain, [csv |-> output_csv[1], step |-> done])
          /\ \E next \in (done + 1)..Len(ChainSteps) :
                /\ tool' = ChainSteps[next].script
                /\ columns' = <<ChainSteps[next].column>>
    /\ input_csv' = output_csv[1]
    /\ df' = <<>>
    /\ changes' = <<>>
    /\ col_index' = 0
    /\ row' = 0
    /\ series' = <<>>
    /\ tool_pc' = "load"
    /\ output_csv' = <<>>
    /\ output_log' = <<>>
    /\ UNCHANGED <<options, tool_error>>
    /\ UNCHANGED <<mainVars, normVars, dedupeVars, loadVars, concVars>>

NextChain ==
    \/ LoadCsv
    \/ CleanCell
    \/ AssignColumn
    \/ Return
    \/ WriteCsv
    \/ WriteLog
    \/ StartNextStep

SpecChain == InitChain /\ [][NextChain]_vars

(***************************************************************************)
(* Properties of the orchestrator.                                          *)
(***************************************************************************)
LastProc == procs[Len(procs)]

IsSkipLine(l) == l.tag \in {"SKIP disabled", "SKIP column not found"}

Stdout(tag) == \E i \in 1..Len(stdout) : stdout[i].tag = tag

\* C1 (file threading): the first child reads the input file and every later
\* child reads the previous child's input with "_cleaned" put between stem and
\* suffix; once the loop has taken a child's output, current_file is that
\* output, which is also the path the tool wrote; while a child is running or
\* has just returned, current_file is still what that child was given.
C1_FileThreading ==
    /\ \A k \in 1..Len(procs) :
          procs[k].input = IF k = 1 THEN input_path
                           ELSE stem(procs[k-1].input) \o <<"_cleaned">>
                                    \o suffix(procs[k-1].input)
    /\ pc \in {"loop", "done"} /\ procs # <<>> =>
          /\ current_file = stem(LastProc.input) \o <<"_cleaned">>
                                \o suffix(LastProc.input)
          /\ current_file = ToolOutput(LastProc.script, LastProc.input, LastProc.args)
          /\ current_file \in DOMAIN fs
    /\ pc \in {"loop", "done"} /\ procs = <<>> => current_file = input_path
    /\ pc \in {"wait", "returned"} => current_file = LastProc.input

\* C1 witness: two steps have been executed and a third child reads their output
C1_Witness ==
    /\ pc = "wait"
    /\ Len(procs) = 3
    /\ current_file = input_path \o <<"_cleaned", "_cleaned">>
          \/ current_file = <<"input", "_cleaned", "_cleaned", ".", "csv">>

\* C2 (skip semantics): at a pipeline entry that is switched off or whose first
\* argument is not a column of current_file, the step the program takes starts
\* no child, appends exactly one [SKIP] line to the run log, touches no file,
\* leaves current_file and step_index alone and moves to the next entry.
C2_SkipStep ==
    (/\ pc = "loop"
     /\ entry \in Entries
     /\ \/ ~config[pipeline[entry][2]]
        \/ config[pipeline[entry][3]][1] \notin Range(fs[current_file]))
    => /\ procs' = procs
       /\ fs' = fs
       /\ Len(main_log') = Len(main_log) + 1
       /\ SubSeq(main_log', 1, Len(main_log)) = main_log
       /\ IsSkipLine(main_log'[Len(main_log')])
       /\ main_log'[Len(main_log')].script = pipeline[entry][1]
       /\ current_file' = current_file
       /\ step_index' = step_index
       /\ entry' = entry + 1
       /\ pc' = "loop"

C2_SkipSemantics == [][C2_SkipStep]_vars

\* C2 witness: a finished run that skipped one entry because it was switched
\* off and another because its column was absent, and executed a step after
\* both skips
C2_Witness ==
    /\ pc = "done"
    /\ \E i, j, k \in 1..Len(main_log) :
          /\ main_log[i].tag = "SKIP disabled"
          /\ main_log[j].tag = "SKIP column not found"
          /\ i < k /\ j < k
          /\ main_log[k].tag = "RUN"

FailedChildren == {k \in 1..Len(procs) :
                      procs[k].state = "exited" /\ procs[k].returncode # 0}

\* C3 (abort on child failure): once a child has exited non-zero it stays the
\* last child, the loop stands at its entry, current_file is still its input,
\* the last line of the run log is that step's Args line, nothing more is
\* written, the run ends with CalledProcessError and never prints PIPELINE
\* COMPLETE.
C3_AbortOnChildFailure ==
    \A k \in FailedChildren :
        /\ k = Len(procs)
        /\ pc \in {"returned", "exit"}
        /\ pc = "exit" => error = "CalledProcessError"
        /\ pipeline[entry][1] = procs[k].script
        /\ current_file = procs[k].input
        /\ main_log[Len(main_log)].tag = "Args"
        /\ main_log[Len(main_log)].script = procs[k].script
        /\ ~Stdout("PIPELINE COMPLETE")
        /\ MainLogName \notin DOMAIN logs
        /\ pc = "exit" => ~ENABLED Next

\* C3 witness: the run has ended on a failed child after an executed step
C3_Witness ==
    /\ pc = "exit"
    /\ error = "CalledProcessError"
    /\ Len(procs) >= 2
    /\ LastProc.returncode = 1

\* C4 (abort on missing output): when the last child exited zero and the
\* derived output file does not exist, the run is waiting to raise or has ended
\* with RuntimeError, with current_file still that child's input and nothing
\* further enabled; RuntimeError arises only so; and when the file exists and
\* the loop has moved on, current_file is that file.
C4_AbortOnMissingOutput ==
    /\ (/\ procs # <<>>
        /\ LastProc.state = "exited"
        /\ LastProc.returncode = 0
        /\ (stem(LastProc.input) \o <<"_cleaned">> \o suffix(LastProc.input))
              \notin DOMAIN fs)
       => /\ pc \in {"returned", "exit"}
          /\ pc = "exit" => error = "RuntimeError" /\ ~ENABLED Next
          /\ current_file = LastProc.input
          /\ pipeline[entry][1] = LastProc.script
          /\ ~Stdout("PIPELINE COMPLETE")
    /\ error = "RuntimeError" =>
          /\ pc = "exit"
          /\ LastProc.returncode = 0
          /\ (stem(current_file) \o <<"_cleaned">> \o suffix(current_file))
                \notin DOMAIN fs
    /\ (/\ procs # <<>>
        /\ LastProc.state = "exited"
        /\ LastProc.returncode = 0
        /\ pc \in {"loop", "done"})
       => current_file = stem(LastProc.input) \o <<"_cleaned">> \o suffix(LastProc.input)

\* C4 witness: a run that executed a step, then ran a tool that exited zero but
\* wrote elsewhere, and ended with RuntimeError
C4_Witness ==
    /\ pc = "exit"
    /\ error = "RuntimeError"
    /\ Len(procs) >= 2
    /\ OutCsvName \in DOMAIN fs

\* C5 (terminal state), as claimed: every run that got past argument checking
\* and has ended, complete or aborted, has written the accumulated run log to
\* clean_main_log.txt and reported the final current_file.
C5_TerminalFlush ==
    (pc \in {"done", "exit"} /\ entry >= 1) =>
        /\ MainLogName \in DOMAIN logs
        /\ IsPrefix(main_log, logs[MainLogName]) \/ IsPrefix(logs[MainLogName], main_log)
        /\ \E i \in 1..Len(stdout) :
              stdout[i].tag = "Final cleaned file" /\ stdout[i].file = current_file

\* the order of the tools that C6 names
C6_Order == << "clean_duplicate.py", "clean_phone.py", "clean_zip.py",
               "clean_state.py", "clean_website.py", "clean_email.py",
               "clean_linkedin.py", "clean_facebook.py", "clean_instagram.py",
               "clean_number.py", "clean_alphanum.py" >>

C6_Position(script) == CHOOSE k \in 1..Len(C6_Order) : C6_Order[k] = script

\* the lines of the run log that record the evaluation of an entry
C6_Evaluations == SelectSeq(main_log, LAMBDA l : IsSkipLine(l) \/ l.tag = "RUN")

\* C6 (ordering): the entries evaluated so far are, in this order and once
\* each, the first tools of the fixed list; at most one child is running, it
\* is the last one started and main() is blocked on it; the loop never stands
\* at an entry while a child is running; a finished run has evaluated all
\* eleven.
C6_Sequential ==
    /\ Len(C6_Evaluations) <= Len(C6_Order)
    /\ \A i \in 1..Len(C6_Evaluations) : C6_Evaluations[i].script = C6_Order[i]
    /\ pc = "loop" => Len(C6_Evaluations) = entry - 1
    /\ pc \in {"wait", "returned"} => Len(C6_Evaluations) = entry
    /\ pc = "done" => Len(C6_Evaluations) = Len(C6_Order)
    /\ Cardinality({k \in 1..Len(procs) : procs[k].state = "running"}) <= 1
    /\ \A k \in 1..Len(procs) :
          procs[k].state = "running" => k = Len(procs) /\ pc = "wait"
    /\ \A i, j \in 1..Len(procs) :
          i < j => C6_Position(procs[i].script) < C6_Position(procs[j].script)

\* C6 witness: a child is running after an earlier entry was skipped and
\* another was executed
C6_Witness ==
    /\ pc = "wait"
    /\ Len(procs) >= 2
    /\ \E i \in 1..Len(main_log) : IsSkipLine(main_log[i])

\* C7 (missing explicit columns), as claimed: with the argument lists of CONFIG
\* as they stand, a child never exits non-zero because a column it takes as an
\* explicit column name is absent from the file it was given: such a step is
\* skipped, and the run goes on.
C7_MissingColumnSkips ==
    \A k \in 1..Len(procs) :
        (\E e \in Entries : pipeline[e][1] = procs[k].script
                              /\ procs[k].args = CONFIG[pipeline[e][3]])
        => \A c \in Range(ParseArgs(procs[k].script, procs[k].args).columns) :
              c \in Range(fs[procs[k].input])

(***************************************************************************)
(* Properties of a per-cell tool.                                           *)
(***************************************************************************)
\* how many times column c is named in the selection
TimesSelected(c) == Cardinality({i \in 1..Len(columns) : columns[i] = c})

RECURSIVE CleanedTimes(_, _)
\* the cell val after n passes of the tool's normalizer
CleanedTimes(n, val) ==
    IF n = 0 THEN val ELSE clean_cell(tool, options, CleanedTimes(n - 1, val))

\* a cell as to_csv writes it
CsvCell(val) == IF isna(val) THEN <<>> ELSE val

\* C8: shape preservation.  While a per-cell tool works, and in the CSV it
\* writes when it succeeds, the table has the column names of the input in
\* the same order and as many rows as the input; the rows are in the input's
\* order: row r of the output is row r of the input, its cells of the
\* selected columns cleaned (once for each time the column is selected) and
\* its other cells as they were.
C8_ShapePreserved ==
    /\ tool_pc # "idle" =>
          /\ df.header = input_csv.header
          /\ Len(df.rows) = Len(input_csv.rows)
    /\ output_csv # <<>> =>
          LET out == output_csv[1]
          IN  /\ tool_error = ""
              /\ out.header = input_csv.header
              /\ Len(out.rows) = Len(input_csv.rows)
              /\ \A r \in 1..Len(out.rows) :
                    /\ Len(out.rows[r]) = Len(input_csv.header)
                    /\ \A c \in 1..Len(out.rows[r]) :
                          out.rows[r][c] =
                              CsvCell(CleanedTimes(TimesSelected(out.header[c]),
                                                   input_csv.rows[r][c]))

\* a tool has succeeded on a table of two rows with two columns selected, and
\* its output differs from its input
C8_Witness ==
    /\ tool_pc = "exit"
    /\ tool_error = ""
    /\ output_csv # <<>>
    /\ Len(input_csv.rows) = 2
    /\ Len(columns) = 2
    /\ output_csv[1] # to_csv(input_csv)

\* one call of the per-cell function in a tool that collects changes
C9_Step ==
    (tool \in ChangeTools /\ row' = row + 1) =>
        LET val     == Cell(df, row', columns[col_index])
            cleaned == series'[row']
        IN  changes' =
                IF str(cleaned) # str(val)
                THEN Append(changes, [old |-> str(val), new |-> cleaned,
                                      col |-> columns[col_index]])
                ELSE changes

\* C9: change-record condition.  In every tool that collects changes, for
\* every cell of every selected column a Change Record is appended if and
\* only if the string form of the cleaned value differs from the string form
\* of the original cell value: an altered cell always gets a record, a cell
\* left as it was (a missing cell left missing too) never gets one.
C9_RecordIffChanged == [][C9_Step]_vars

\* every record names a column of the selection
RecordsInSelection ==
    \A i \in 1..Len(changes) : changes[i].col \in Range(columns)

C10_Step ==
    /\ RecordsInSelection
    /\ RecordsInSelection'
    /\ IsPrefix(changes, changes')

\* C10: change-record scope.  In every reachable state of clean_dataframe the
\* column name of every Change Record in the changes list is a member of the
\* column selection being processed, and no step modifies or removes a
\* record that has been appended.
C10_RecordScope == [][C10_Step]_vars

\* a tool has ended with records for two different selected columns
C10_Witness ==
    /\ tool_pc = "exit"
    /\ output_log # <<>>
    /\ \E i, j \in 1..Len(changes) :
          /\ i < j
          /\ changes[i].col # changes[j].col
          /\ {changes[i].col, changes[j].col} \subseteq Range(columns)

\* the lines of the written log that carry the tag
LogLines(tag) == SelectSeq(output_log[1], LAMBDA line : line.tag = tag)

\* C11: change logger content.  The log a tool has written holds the tool's
\* header, the processed columns in selection order, a count of changed
\* entries equal to the number of Change Records, and one "[column] original
\* -> new" line for each Change Record in the order the records were made;
\* with no records it holds a no-changes line instead.
C11_LogContent ==
    output_log # <<>> =>
        /\ output_log[1][1] = LogLine("title", LogTitle(tool), <<>>, <<>>, 0)
        /\ Len(LogLines("title")) = 1
        /\ [i \in 1..Len(LogLines("column")) |-> LogLines("column")[i].text]
              = columns
        /\ Len(LogLines("count")) = 1
        /\ LogLines("count")[1].n = Len(changes)
        /\ LogLines("change") =
              [i \in 1..Len(changes) |->
                  LogLine("change", changes[i].col, changes[i].old,
                          str(changes[i].new), 0)]
        /\ Len(LogLines("no changes")) = IF changes = <<>> THEN 1 ELSE 0

\* C12: every tool produces both outputs.  A tool that has ended without an
\* error has written a cleaned CSV and a change log.
C12_BothOutputs ==
    (tool_pc = "exit" /\ tool_error = "") =>
        /\ output_csv # <<>>
        /\ output_log # <<>>

(***************************************************************************)
(* Claims about the normalizers                                            *)
(***************************************************************************)
\* C13: every normalizer is idempotent: applied to its own result, under the
\* same options, it returns that result again, f(f(x)) = f(x).
C13_Idempotent ==
    Len(results) >= 2 => results[2] = results[1]

\* the blank cells: missing, empty, or of whitespace only
IsBlank(val) == isna(val) \/ strip(val) = <<>>

\* the normalizers whose empty representation is the empty string
EmptyStringTools == CellTools \ {"clean_phone.py", "clean_alphanum.py"}

\* C14: every normalizer returns a value on every cell and raises nothing,
\* and on a missing or blank cell those of email, ZIP, state, website,
\* facebook, linkedin, instagram and number return the empty string.
C14_TotalAndBlank ==
    results # <<>> =>
        /\ results[1] # OverflowError
        /\ (IsBlank(cell) /\ tool \in EmptyStringTools) => results[1] = <<>>

PlatformTools == {"clean_facebook.py", "clean_linkedin.py", "clean_instagram.py"}

\* the host of a cell, as the three normalizers read it
Host(val) == lower(urlparse(ForParse(Without(strip(str(val)), {" "}))).netloc)

\* an account name rather than an address: it names no host
IsHandle(val) ==
    \/ startswith(strip(val), <<"@">>)
    \/ \A i \in 1..Len(val) : val[i] \notin {".", "/", ":"}

linkedin_com == <<"l", "i", "n", "k", "e", "d", "i", "n", ".", "c", "o", "m">>

AllowedDomains(script) ==
    CASE script = "clean_facebook.py"  -> FACEBOOK_DOMAINS
      [] script = "clean_linkedin.py"  -> {linkedin_com, www \o linkedin_com}
      [] script = "clean_instagram.py" -> INSTAGRAM_DOMAINS

\* C15: the facebook, linkedin and instagram normalizers return the empty
\* string for every non-blank cell whose host is not an allowed domain of the
\* platform, and every non-empty result starts with "www." and a domain of
\* the platform.
C15_DomainAllowList ==
    (tool \in PlatformTools /\ results # <<>> /\ ~IsBlank(cell)) =>
        /\ (~IsHandle(cell) /\ Host(cell) \notin AllowedDomains(tool))
               => results[1] = <<>>
        /\ results[1] # <<>> =>
               \E d \in AllowedDomains(tool) :
                   /\ startswith(d, www)
                   /\ startswith(results[1], d)

\* the path segments the claim C16 lists as denylisted
DenylistedNames ==
    {<<"p", "o", "s", "t", "s">>,
     <<"p", "o", "s", "t">>,
     <<"p", "h", "o", "t", "o", "s">>,
     <<"p", "h", "o", "t", "o">>,
     <<"v", "i", "d", "e", "o", "s">>,
     <<"v", "i", "d", "e", "o">>,
     <<"r", "e", "e", "l">>,
     <<"s", "t", "o", "r", "y", ".", "p", "h", "p">>,
     <<"s", "h", "a", "r", "e">>,
     <<"g", "r", "o", "u", "p", "s">>,
     <<"w", "a", "t", "c", "h">>}

\* the path segments of the address in a cell
Segments(val) ==
    parts(urlparse(ForParse(Without(strip(str(val)), {" "}))).path)

IsFacebookUrl(val) ==
    /\ ~IsBlank(val)
    /\ ~urlparse(ForParse(Without(strip(str(val)), {" "}))).raises
    /\ Host(val) \in FACEBOOK_DOMAINS

HasDenylisted(val) ==
    \E i \in 1..Len(Segments(val)) : lower(Segments(val)[i]) \in DenylistedNames

\* "www.<domain>/<segment>"
ProfileUrl(val) ==
    (IF startswith(Host(val), www) THEN Host(val) ELSE www \o Host(val))
    \o <<"/">> \o Segments(val)[1]

IsRejectedName(seg) ==
    \/ seg = <<"h", "o", "m", "e">>
    \/ startswith(lower(seg), <<"s", "t", "o", "r", "y", ".", "p", "h", "p">>)

SpelledStates(val) ==
    {i \in 1..Len(STATE_TO_ABBR) :
        \E k \in 1..2 : upper(strip(str(val))) = upper(STATE_TO_ABBR[i][k])}

\* C17: for each of the 50 states with name N and abbreviation A, a cell
\* that spells N or A in any letter case, with whitespace around it, gives A
\* in mode abbr and the title-cased N in mode full, and the result of mode
\* full gives A again in mode abbr; every other cell gives the empty string.
C17_StateRoundTrip ==
    (tool = "clean_state.py" /\ results # <<>>) =>
        /\ Len(STATE_TO_ABBR) = 50
        /\ \A i \in SpelledStates(cell) :
              LET N == STATE_TO_ABBR[i][1]
                  A == STATE_TO_ABBR[i][2]
              IN  /\ options.mode = "abbr" => results[1] = A
                  /\ options.mode = "full" =>
                        /\ results[1] = title(N)
                        /\ clean_state(results[1], "abbr") = A
        /\ SpelledStates(cell) = {} => results[1] = <<>>

\* a lower-case abbreviation with whitespace around it came back as the
\* two-word name of its state
C17_Witness ==
    /\ tool = "clean_state.py"
    /\ options.mode = "full"
    /\ SpelledStates(cell) # {}
    /\ Len(strip(cell)) = 2
    /\ cell # upper(strip(cell))
    /\ Len(results) = 1
    /\ " " \in Range(results[1])

\* all digit characters of a cell in their order, none for a missing cell
DigitsOf(val) == IF isna(val) THEN <<>> ELSE SelectSeq(val, IsDigit)

\* C18: clean_zip returns the first 5 of all digit characters of the cell in
\* their order, fewer when the cell has fewer and never padded; it returns
\* the empty string exactly when the cell is missing or has no digit, and
\* its result holds digits only.
C18_ZipTruncation ==
    (tool = "clean_zip.py" /\ results # <<>>) =>
        /\ results[1] = Take(DigitsOf(cell), 5)
        /\ Len(results[1]) = Min({5, Len(DigitsOf(cell))})
        /\ results[1] = <<>> <=> (isna(cell) \/ \A i \in 1..Len(cell) : ~IsDigit(cell[i]))
        /\ \A i \in 1..Len(results[1]) : IsDigit(results[1][i])

\* a cell of more than 5 digits with other characters between them was cut
\* to its first 5 digits
C18_Witness ==
    /\ tool = "clean_zip.py"
    /\ Len(DigitsOf(cell)) > 5
    /\ DigitsOf(cell) # cell
    /\ Len(results) = 1
    /\ Len(results[1]) = 5

\* the digits and the first decimal point of a cell, the digits after
\* further points joined to the fraction
KeptNumber(val) ==
    IF isna(val) THEN <<>>
    ELSE LET kept == SelectSeq(val, LAMBDA c : IsDigit(c) \/ c = ".")
             dot  == FirstOf(kept, {"."})
         IN  Take(kept, dot) \o SelectSeq(Drop(kept, dot), IsDigit)

\* the multiple of 10^-places next to the number at or above it (up), at or
\* below it (down), in exact arithmetic, with places fractional digits
ExactRound(num, places, round_mode) ==
    LET dot    == FirstOf(num, {"."})
        padded == Drop(num, dot) \o Zeros(places)
        scaled == Take(num, dot - 1) \o Take(padded, places)
        onGrid == \A i \in (places + 1)..Len(padded) : padded[i] = "0"
    IN  FormatFixed(IF round_mode = "up" /\ ~onGrid THEN Increment(scaled)
                    ELSE scaled, places)

\* C19: extract_number keeps the digits and one decimal point of the cell;
\* mode integer gives the integer part of that number, mode decimal with N
\* places gives, with exactly N fractional digits, the least multiple of
\* 10^-N at or above it for up and the greatest at or below it for down, so
\* that a number on the grid comes back unchanged; a cell that holds no
\* number gives the empty string.
C19_NumericConversion ==
    (tool = "clean_number.py" /\ results # <<>>) =>
        LET num == KeptNumber(cell)
        IN  IF \A i \in 1..Len(num) : ~IsDigit(num[i]) THEN results[1] = <<>>
            ELSE IF options.mode = "integer"
            THEN results[1] = StripLeadingZeros(Take(num, FirstOf(num, {"."}) - 1))
            ELSE results[1] = ExactRound(num, options.places, options.round_mode)

(***************************************************************************)
(* Claims about clean_duplicate.py                                         *)
(***************************************************************************)
\* the rows of the loaded table that no earlier row shares its key with
FirstOccurrences ==
    {r \in 1..Len(df.rows) :
        \A q \in 1..(r - 1) :
            \E c \in Range(columns) : Cell(df, q, c) # Cell(df, r, c)}

\* the k-th number of a set of numbers, from the least
KthOf(S, k) == CHOOSE x \in S : Cardinality({y \in S : y < x}) = k - 1

\* C20: dedupe_dataframe keeps exactly the rows that are the first
\* occurrence of their key, in their original order, and removed_count is
\* rows before minus rows after and the number of removed rows.
C20_KeepsFirst ==
    tool_pc \in {"returned", "csv written"} /\ tool = "clean_duplicate.py" =>
        /\ deduped.header = df.header
        /\ Len(deduped.rows) = Cardinality(FirstOccurrences)
        /\ \A k \in 1..Len(deduped.rows) :
              deduped.rows[k] = df.rows[KthOf(FirstOccurrences, k)]
        /\ before = Len(df.rows)
        /\ after = Len(deduped.rows)
        /\ removed_count = before - after
        /\ removed_count = Len(removed_rows.rows)
        /\ \A k \in 1..Len(removed_rows.rows) :
              removed_rows.rows[k] =
                  df.rows[KthOf((1..Len(df.rows)) \ FirstOccurrences, k)]

\* the table [A,x],[A,y],[B,..] keyed on its first column lost its second
\* row and kept the two others in their order
C20_Witness ==
    /\ tool = "clean_duplicate.py"
    /\ tool_pc = "returned"
    /\ columns = <<"First">>
    /\ Len(df.rows) = 3
    /\ df.rows[1][1] = df.rows[2][1]
    /\ df.rows[1][2] # df.rows[2][2]
    /\ df.rows[3][1] # df.rows[1][1]
    /\ deduped.rows = <<df.rows[1], df.rows[3]>>
    /\ removed_count = 1

(***************************************************************************)
(* Claims about column detection                                           *)
(***************************************************************************)
\* the keywords each tool's module text names for its detection
DocumentedKeywords(script) ==
    CASE script = "clean_phone.py" -> KEYWORDS(script)
      [] script = "clean_state.py" -> KEYWORDS(script) \cup {<<"s", "t">>}
      [] script = "clean_email.py" -> {<<"e", "m", "a", "i", "l">>}
      [] script = "clean_website.py" -> {<<"w", "e", "b", "s", "i", "t", "e">>,
<<"u", "r", "l">>}
      [] script = "clean_facebook.py" -> {<<"f", "a", "c", "e", "b", "o", "o", "k">>,
<<"f", "b">>,
<<"m", "e", "t", "a">>}
      [] script = "clean_linkedin.py" -> {<<"l", "i", "n", "k", "e", "d", "i", "n">>,
<<"l", "n", "k", "d">>}
      [] script = "clean_instagram.py" -> {<<"i", "n", "s", "t", "a", "g", "r", "a", "m">>,
<<"i", "g">>,
<<"i", "n", "s", "t", "a">>}

\* the columns whose lower-cased name contains a documented keyword
KeywordMatches(script, header) ==
    SelectSeq(header, LAMBDA c :
        \E kw \in DocumentedKeywords(script) : contains(lower(c), kw))

\* C21: with no column on the command line a detecting tool selects exactly
\* the columns whose lower-cased name contains one of its documented
\* keywords, in table order and each once; when there is none it fails with
\* ValueError and writes no output.
C21_AutoDetect ==
    tool_pc # "detect" =>
        IF KeywordMatches(tool, df.header) # <<>>
        THEN /\ tool_error = ""
             /\ columns = KeywordMatches(tool, df.header)
             /\ \A i, j \in 1..Len(columns) : i # j => columns[i] # columns[j]
        ELSE /\ tool_error = "ValueError"
             /\ columns = <<>>
             /\ output_csv = <<>>
             /\ output_log = <<>>

(***************************************************************************)
(* Claims about a tool run                                                 *)
(***************************************************************************)
\* C22: a tool that is given explicit column names of which one is no column
\* of the loaded table fails with a column-not-found ValueError and writes
\* neither the cleaned CSV nor a log, also when earlier names of the list
\* are columns.
C22_ColumnValidation ==
    (tool_pc = "exit" /\ \E c \in Range(columns) : c \notin Range(df.header)) =>
        /\ tool_error = "ValueError"
        /\ output_csv = <<>>
        /\ output_log = <<>>

(***************************************************************************)
(* Further claims about the normalizers                                    *)
(***************************************************************************)
\* the phone-like run of digits of a cell, with "+1" assumed before it when
\* it has no "+" of its own; none when the cell has no such run
PhoneNumberOf(val) ==
    LET text   == strip(str(val))
        digits == normalize_raw_digits(PhoneCandidate(text))
    IN  IF isna(val) \/ PhoneMatchStarts(text) = {} THEN <<>>
        ELSE IF startswith(digits, <<"+">>) THEN digits
        ELSE <<"+", "1">> \o digits

\* C23: extract_and_clean_phone returns the cell as it was whenever it finds
\* no phone-like run of digits in it or the run is no valid number, with or
\* without the assumed +1; only for a valid number is the result its E.164
\* form.
C23_InvalidPhoneUnchanged ==
    (tool = "clean_phone.py" /\ results # <<>> /\ (isna(cell) \/ strip(cell) # <<>>)) =>
        IF is_valid_number(PhoneNumberOf(cell))
        THEN results[1] = PhoneNumberOf(cell)
        ELSE results[1] = cell

(***************************************************************************)
(* Claims about read_csv_with_fallback                                     *)
(***************************************************************************)
\* the place in the tool's list of the first encoding the file reads in, 0
\* when it reads in none
FirstSuccess ==
    LET ok == {i \in 1..Len(encodings(tool)) :
                  read_csv_succeeds(file, encodings(tool)[i])}
    IN  IF ok = {} THEN 0 ELSE CHOOSE i \in ok : \A j \in ok : i <= j

\* C24: read_csv_with_fallback tries the encodings of the tool's list in
\* their order, returns the table of the first one that reads, tries none
\* after it and reports it, and raises only when every one of them failed.
C24_LoaderFallback ==
    tool_pc \in {"load", "loaded", "exit"} /\ tool \in AllTools =>
        /\ IsPrefix(attempts, encodings(tool))
        /\ FirstSuccess # 0 => Len(attempts) <= FirstSuccess
        /\ tool_pc = "loaded" <=> loaded # <<>>
        /\ loaded # <<>> =>
              /\ Len(attempts) = FirstSuccess
              /\ loaded = <<[encoding |-> encodings(tool)[FirstSuccess], file |-> file]>>
              /\ reported = <<encodings(tool)[FirstSuccess]>>
              /\ tool_error = ""
        /\ loaded = <<>> => reported = <<>>
        /\ tool_error # "" =>
              /\ tool_error = "RuntimeError"
              /\ FirstSuccess = 0
              /\ attempts = encodings(tool)

\* a file of cp1252 text was read as cp1252 after both UTF-8 readings failed,
\* by a tool that has cp1252 before latin1
C24_Witness ==
    /\ tool_pc = "loaded"
    /\ file = "cp1252"
    /\ attempts = <<"utf-8", "utf-8-sig", "cp1252">>
    /\ loaded[1].encoding = "cp1252"
    /\ reported = <<"cp1252">>


(***************************************************************************)
(* Two invocations of one tool in one directory.                            *)
(***************************************************************************)
BothExited == \A i \in Invocations : invocations[i].at = "exit"

\* the invocation that closed a file last
LastWriter == closes[Len(closes)].by

OtherThan(i) == CHOOSE j \in Invocations : j # i

RECURSIVE CleanedNameTimes(_, _)
\* the name after k steps: with_name(stem + "_cleaned" + suffix), k times
CleanedNameTimes(k, name) ==
    IF k = 0 THEN name ELSE CleanedName(CleanedNameTimes(k - 1, name))

RECURSIVE CopiesOfCleaned(_)
CopiesOfCleaned(k) ==
    IF k = 0 THEN <<>> ELSE <<"_cleaned">> \o CopiesOfCleaned(k - 1)

\* main() is past "step_index = 1"
LoopEntered == step_index >= 1

MainLogLines(tag) == SelectSeq(main_log, LAMBDA line : line.tag = tag)

\* the steps whose output was accepted
ExecutedSteps == Len(MainLogLines("Output"))

\* the output path of the i-th child
OutputOf(i) == CleanedName(procs[i].input)

\* the numbering of the steps, and the outputs: the [RUN ] lines are numbered
\* from 1 without gaps, one more than the executed steps while a step runs or
\* has failed, and no step writes to the original input or to an earlier
\* step's output
NumberedAndFresh ==
    /\ step_index = ExecutedSteps + 1
    /\ LET runs == MainLogLines("RUN")
       IN  /\ \A i \in 1..Len(runs) : runs[i].step = i
           /\ Len(runs) = Len(procs)
           /\ Len(runs) = IF pc \in {"loop", "done"}
                          THEN ExecutedSteps ELSE ExecutedSteps + 1
    /\ \A i \in 1..Len(procs) :
          /\ OutputOf(i) # input_path
          /\ \A j \in 1..(i - 1) : OutputOf(i) # OutputOf(j)

\* C26 as stated: in every reachable state of the orchestrator, with k
\* executed steps so far, current_file's name is the original stem, k copies
\* of "_cleaned" and the original suffix, step_index = k + 1, the [RUN ]
\* lines are numbered 1..k without gaps whatever was skipped, and each
\* executed step's output differs from the input and from earlier outputs.
C26_AsStated ==
    LoopEntered =>
        /\ current_file = stem(input_path) \o CopiesOfCleaned(ExecutedSteps)
                             \o suffix(input_path)
        /\ NumberedAndFresh

\* C26: in every reachable state of the orchestrator, with k executed steps
\* so far, current_file's name is the input's name renamed k times to
\* stem + "_cleaned" + suffix, which is the original stem, k copies of
\* "_cleaned" and the original suffix when the input's name does not end in
\* a dot; step_index = k + 1, the [RUN ] lines are numbered from 1 without
\* gaps whatever was skipped, and each executed step's output differs from
\* the input and from every earlier output.
C26_NeverOverwritesInputs ==
    LoopEntered =>
        /\ current_file = CleanedNameTimes(ExecutedSteps, input_path)
        /\ input_path[Len(input_path)] # "." =>
              current_file = stem(input_path)
                                \o CopiesOfCleaned(ExecutedSteps)
                                \o suffix(input_path)
        /\ NumberedAndFresh

\* a run is over after three executed steps and a skipped one
C26_Witness ==
    /\ pc = "done"
    /\ ExecutedSteps >= 3
    /\ MainLogLines("SKIP column not found") # <<>>
    /\ current_file # input_path


(***************************************************************************)
(* How a run of the orchestrator ends.                                      *)
(***************************************************************************)
\* every entry of the pipeline was evaluated, each run with success or skipped
Completed ==
    /\ pc = "done"
    /\ error = ""
    /\ entry = Len(pipeline) + 1
    /\ Len(MainLogLines("RUN")) + Len(MainLogLines("SKIP disabled"))
          + Len(MainLogLines("SKIP column not found")) = Len(pipeline)
    /\ \A i \in 1..Len(procs) :
          procs[i].state = "exited" /\ procs[i].returncode = 0

\* the run ended at an executed step that failed, the first one to fail
Aborted ==
    /\ pc = "exit"
    /\ error \in {"CalledProcessError", "RuntimeError"}
    /\ entry \in Entries
    /\ procs # <<>>
    /\ procs[Len(procs)].script = script_of(entry)
    /\ procs[Len(procs)].state = "exited"
    /\ error = "CalledProcessError" <=> procs[Len(procs)].returncode # 0
    /\ \A i \in 1..(Len(procs) - 1) :
          procs[i].returncode = 0 /\ OutputOf(i) \in DOMAIN fs

\* the run ended before the loop: no argument, or no such input file
Rejected ==
    /\ pc = "exit"
    /\ error \in {"SystemExit", "FileNotFoundError"}
    /\ entry = 0
    /\ procs = <<>>

ReservedRoots ==
    {<<"h", "o", "m", "e">>, <<"p", "a", "g", "e", "s">>,
     <<"m", "a", "r", "k", "e", "t", "p", "l", "a", "c", "e">>}

\* C28: normalize_facebook_url returns the empty string for a Facebook-domain
\* URL whose path is exactly one of the reserved single segments "home",
\* "pages" or "marketplace", with or without a trailing slash.
C28_ReservedRoots ==
    ( /\ tool = "clean_facebook.py"
      /\ results # <<>>
      /\ IsFacebookUrl(cell)
      /\ Len(Segments(cell)) = 1
      /\ Segments(cell)[1] \in ReservedRoots )
        => results[1] = <<>>


\* the rows of the input at the positions of index, in their order
RowsAt(index) ==
    [k \in 1..Cardinality(index) |-> df.rows[KthOf(index, k)]]

\* C29: for every table and key subset, the kept rows and the reported
\* removed rows are disjoint and together are exactly the input rows (each
\* input row is in exactly one of the two), no two kept rows share a key,
\* every removed row's key is the key of an earlier kept row, and
\* deduplicating the kept table again on the same key removes nothing.
C29_Partition ==
    tool_pc \in {"returned", "csv written"} /\ tool = "clean_duplicate.py" =>
        /\ \E kept \in SUBSET (1..Len(df.rows)) :
              LET removed == (1..Len(df.rows)) \ kept
              IN  /\ deduped.rows = RowsAt(kept)
                  /\ removed_rows.rows = RowsAt(removed)
                  /\ \A r \in removed :
                        \E q \in kept :
                           /\ q < r
                           /\ KeyOf(df, q, columns) = KeyOf(df, r, columns)
        /\ \A i, j \in 1..Len(deduped.rows) :
              i # j => KeyOf(deduped, i, columns) # KeyOf(deduped, j, columns)
        /\ drop_duplicates(deduped, columns) = deduped
        /\ \A r \in 1..Len(deduped.rows) : ~duplicated(deduped, columns)[r]

\* a table of three rows with a missing key lost two of them
C29_Witness ==
    /\ tool = "clean_duplicate.py"
    /\ tool_pc = "returned"
    /\ Len(df.rows) = 3
    /\ isna(df.rows[1][1])
    /\ Len(removed_rows.rows) = 2
    /\ Len(deduped.rows) = 1


(***************************************************************************)
(* The columns a tool was not asked to clean.                               *)
(***************************************************************************)
\* a tool of the chain has written its CSV and ended
StepFinished ==
    /\ chain # <<>>
    /\ tool_pc = "exit"
    /\ tool_error = ""
    /\ output_csv # <<>>

\* column c of a file, from the first row to the last
ColumnOf(csv, c) ==
    [r \in 1..Len(csv.rows) |-> csv.rows[r][ColumnIndex(csv, c)]]

\* C30: a per-cell tool's output table has, in every column that was not
\* selected, exactly the cell values of its input file; so in an
\* orchestrated run the values an earlier step produced are still there
\* unchanged in the output of a later step that selects another column.
C30_Frame ==
    StepFinished =>
        /\ \A i \in 1..Len(input_csv.header) :
              input_csv.header[i] \notin Range(columns) =>
                 ColumnOf(output_csv[1], input_csv.header[i])
                    = ColumnOf(input_csv, input_csv.header[i])
        /\ \A k \in 2..Len(chain) :
              ColumnOf(output_csv[1], ChainSteps[chain[k].step].column)
                 = ColumnOf(chain[k].csv, ChainSteps[chain[k].step].column)

====
